---- MODULE Spec2Model ----
(***************************************************************************)
(* Verification model of the agentic purchase saga.                        *)
(*                                                                         *)
(* Part I  : checkout admission and the idempotent receipt store           *)
(*           (apps/agent5_checkout/main.py, libs/utils/payment.py).        *)
(* Part II : S3 best-offer selection, S4 trust evaluation and bounded       *)
(*           compensation (agentic_graph/nodes.py, coordinator/saga.py).   *)
(*                                                                         *)
(* Strings whose characters the code inspects (card numbers, expiries,     *)
(* CVVs, URLs, keys) are sequences of one-character strings; the empty     *)
(* string is the empty sequence.                                           *)
(***************************************************************************)
EXTENDS Integers, Sequences, FiniteSets, TLC

VARIABLES
    RECEIPT_STORE,   \* _RECEIPT_STORE : idempotency key -> Receipt
    CARD_ACTIVITY,   \* _CARD_ACTIVITY : card digits -> failed attempts
    now,             \* datetime.utcnow() as <<year, month>>
    calls,           \* per caller: the pay() call it issued and its outcome
    impl,            \* which orchestrator drives the run: "graph" or "coordinator"
    request,         \* the run's inputs: preferred URL, overrides, hypothesis
    offers,          \* state.offers / run_saga's offers
    best_offer,      \* state.best_offer / run_saga's best
    trust,           \* state.trust / run_saga's trust
    events,          \* state.events / SagaLog.events
    evals,           \* the offers handed to the trust evaluation, in order
    loc,             \* locals of trust_node while its compensation loop runs
    pc,              \* position of the run
    budgeter,        \* the TokenBudgeter each sourcing strategy constructed
    token_log,       \* the TokenEvents written by TokenBudgeter._log
    sourcing,        \* S3: rerank configuration and each strategy's progress
    run,             \* run inputs of S5 (checkout switch, payment, key) and its receipt
    fn               \* a function applied on its own: its name, arguments and result

payVars == <<RECEIPT_STORE, CARD_ACTIVITY, now, calls>>

s4Vars == <<impl, request, offers, best_offer, trust, events, evals, loc, pc>>

extVars == <<budgeter, token_log, sourcing, run, fn>>

vars == <<RECEIPT_STORE, CARD_ACTIVITY, now, calls,
          impl, request, offers, best_offer, trust, events, evals, loc, pc,
          budgeter, token_log, sourcing, run, fn>>

----------------------------------------------------------------------------
(* Character helpers                                                       *)

DigitChars == {"0", "1", "2", "3", "4", "5", "6", "7", "8", "9"}

DigitValue ==
    ("0" :> 0) @@ ("1" :> 1) @@ ("2" :> 2) @@ ("3" :> 3) @@ ("4" :> 4) @@
    ("5" :> 5) @@ ("6" :> 6) @@ ("7" :> 7) @@ ("8" :> 8) @@ ("9" :> 9)

IsDigit(ch) == ch \in DigitChars

StartsWith(s, prefix) ==
    /\ Len(s) >= Len(prefix)
    /\ SubSeq(s, 1, Len(prefix)) = prefix

Repeat(ch, n) == [i \in 1..n |-> ch]

----------------------------------------------------------------------------
(* libs/utils/payment.py                                                   *)

RECURSIVE LuhnSum(_, _, _)
LuhnSum(digits, i, parity) ==
    \* i is the 0-based index of the Python loop
    IF i >= Len(digits) THEN 0
    ELSE LET d  == DigitValue[digits[i + 1]]
             dd == IF i % 2 = parity
                   THEN (IF 2 * d > 9 THEN 2 * d - 9 ELSE 2 * d)
                   ELSE d
         IN  dd + LuhnSum(digits, i + 1, parity)

luhn_check(card_number) ==
    LET digits == SelectSeq(card_number, IsDigit)
    IN  /\ Len(digits) > 0
        /\ LuhnSum(digits, 0, Len(digits) % 2) % 10 = 0

validate_expiry(exp) ==
    /\ Len(exp) = 5
    /\ \/ exp[1] = "0" /\ exp[2] \in (DigitChars \ {"0"})
       \/ exp[1] = "1" /\ exp[2] \in {"0", "1", "2"}
    /\ exp[3] = "/"
    /\ IsDigit(exp[4])
    /\ IsDigit(exp[5])

expiry_is_future(exp, reference) ==
    IF ~validate_expiry(exp) THEN FALSE
    ELSE LET month == 10 * DigitValue[exp[1]] + DigitValue[exp[2]]
             year  == 2000 + 10 * DigitValue[exp[4]] + DigitValue[exp[5]]
         IN  IF year > reference[1] THEN TRUE
             ELSE IF year < reference[1] THEN FALSE
             ELSE month >= reference[2]

validate_cvv(cvv) ==
    /\ Len(cvv) = 3
    /\ \A i \in 1..3 : IsDigit(cvv[i])

\* hashlib.sha256(payload).hexdigest(): modelled as a collision-free digest,
\* the tag "sha256" followed by the hashed text.
idempotency_key(payload) == <<"sha256">> \o payload

\* digest[:12]: the 12-character prefix of the digest, again collision free.
OrderIdOf(calc_key) == <<"sha256[:12]">> \o Tail(calc_key)

----------------------------------------------------------------------------
(* apps/agent5_checkout/main.py                                            *)

MAX_AMOUNT == 5000

BLACKLISTED_VENDORS == {"FraudCo", "ScamSupply", "UnknownMart"}

VelocityLimit == 5

digits_of(card_number) == SelectSeq(card_number, IsDigit)

detect_card_type(digits) ==
    IF StartsWith(digits, <<"4">>) THEN "visa"
    ELSE IF \E p \in {"1", "2", "3", "4", "5"} : StartsWith(digits, <<"5", p>>)
         THEN "mastercard"
    ELSE IF StartsWith(digits, <<"3", "4">>) \/ StartsWith(digits, <<"3", "7">>)
         THEN "amex"
    ELSE IF StartsWith(digits, <<"6">>) THEN "discover"
    ELSE "unknown"

mask_card(digits) ==
    \* '*' * (len - 4) is empty for len <= 4; digits[-4:] is the whole
    \* string when it is shorter than 4
    LET n == Len(digits)
    IN  Repeat("*", IF n > 4 THEN n - 4 ELSE 0)
        \o SubSeq(digits, IF n > 4 THEN n - 3 ELSE 1, n)

\* variant: the blacklist is consulted before the amount
validate_offer_BlacklistFirst(offer) ==
    IF offer.vendor \in BLACKLISTED_VENDORS THEN "Vendor not allowed"
    ELSE IF offer.price_usd <= 0 THEN "Invalid offer amount"
    ELSE IF offer.price_usd > MAX_AMOUNT THEN "Amount exceeds checkout limit"
    ELSE ""

\* _validate_offer: "" when the offer is admissible, else the error raised
validate_offer(offer) ==
    IF offer.price_usd <= 0 THEN "Invalid offer amount"
    ELSE IF offer.price_usd > MAX_AMOUNT THEN "Amount exceeds checkout limit"
    ELSE IF offer.vendor \in BLACKLISTED_VENDORS THEN "Vendor not allowed"
    ELSE ""

ActivityGet(activity, card) ==
    IF card \in DOMAIN activity THEN activity[card] ELSE 0

ActivityPut(activity, card, n) ==
    [c \in (DOMAIN activity) \cup {card} |->
        IF c = card THEN n ELSE activity[c]]

\* variant: the gate closes one attempt early
check_card_velocity_AtLimit(activity, card) ==
    IF ActivityGet(activity, card) >= VelocityLimit
    THEN "Card flagged for excessive failed attempts"
    ELSE ""

check_card_velocity(activity, card) ==
    IF ActivityGet(activity, card) > VelocityLimit
    THEN "Card flagged for excessive failed attempts"
    ELSE ""

validate_card_length(card, card_brand) ==
    LET length == Len(card)
    IN  IF card_brand = "amex" /\ length # 15 THEN "Invalid card"
        ELSE IF card_brand \in {"visa", "mastercard", "discover"} /\ length # 16
             THEN "Invalid card"
        ELSE IF card_brand = "unknown" /\ ~(13 <= length /\ length <= 19)
             THEN "Invalid card"
        ELSE ""

\* json.dumps({...}, sort_keys=True): the keys in sorted order, each followed
\* by its value rendered as text
PayloadOf(offer, masked, card_brand) ==
    <<"amount", ToString(offer.price_usd), "card">> \o masked
    \o <<"card_type", card_brand, "title", offer.title, "vendor", offer.vendor>>

NoReceipt == [order_id |-> <<>>, idempotency_key |-> <<>>, amount_usd |-> -1,
              vendor |-> "", card_brand |-> "", masked_card |-> <<>>]

\* variant: the Receipt takes the client-supplied amount
NewReceipt_ClientAmount(offer, payment, calc_key, idem_key, card_brand, masked) ==
    [order_id        |-> OrderIdOf(calc_key),
     idempotency_key |-> idem_key,
     amount_usd      |-> payment.amount_usd,
     vendor          |-> offer.vendor,
     card_brand      |-> card_brand,
     masked_card     |-> masked]

\* Receipt(...) at the end of pay
NewReceipt(offer, payment, calc_key, idem_key, card_brand, masked) ==
    [order_id        |-> OrderIdOf(calc_key),
     idempotency_key |-> idem_key,
     amount_usd      |-> offer.price_usd,
     vendor          |-> offer.vendor,
     card_brand      |-> card_brand,
     masked_card     |-> masked]

Raised_Drops(msg, store, activity) ==
    [error |-> msg, receipt |-> NoReceipt, fresh |-> FALSE,
     store |-> << >>, activity |-> activity]

Raised(msg, store, activity) ==
    [error |-> msg, receipt |-> NoReceipt, fresh |-> FALSE,
     store |-> store, activity |-> activity]

\* variant: a failed check raises without counting the attempt
Failed_NoCount(msg, store, activity, card) == Raised(msg, store, activity)

\* a check of lines 79-91 fails: the card's counter goes up by one, then the
\* error is raised
Failed(msg, store, activity, card) ==
    Raised(msg, store, ActivityPut(activity, card, ActivityGet(activity, card) + 1))

\* idem_key = idem_key or calc_key
EffectiveKey(idem_key, calc_key) == IF idem_key # <<>> THEN idem_key ELSE calc_key

\* variant: the store is probed with the payload digest
LookupKey_CalcKey(idem_key, calc_key) == calc_key

\* the key pay looks up in the receipt store
LookupKey(idem_key, calc_key) == EffectiveKey(idem_key, calc_key)

\* variant: the store is never consulted, every call creates and stores
StoreHit_Never(store, key) == FALSE

\* whether pay answers from the store instead of creating a Receipt
StoreHit(store, key) == key \in DOMAIN store

StorePut(store, key, receipt) ==
    [k \in (DOMAIN store) \cup {key} |-> IF k = key THEN receipt ELSE store[k]]

\* the idempotent tail of pay (lines 95-120), after every admission check
Settle(offer, payment, idem_key, digits, card_brand, store, activity) ==
    LET masked   == mask_card(digits)
        calc_key == idempotency_key(PayloadOf(offer, masked, card_brand))
        key      == EffectiveKey(idem_key, calc_key)
        lookup   == LookupKey(idem_key, calc_key)
        receipt  == NewReceipt(offer, payment, calc_key, key, card_brand, masked)
    IN  IF StoreHit(store, lookup)
        THEN [error |-> "", receipt |-> store[lookup], fresh |-> FALSE,
              store |-> store, activity |-> activity]
        ELSE [error |-> "", receipt |-> receipt, fresh |-> TRUE,
              store |-> StorePut(store, key, receipt), activity |-> activity]

pay_GateCounts(offer, payment, idem_key, store, activity, clock) ==
    LET digits     == digits_of(payment.card_number)
        card_brand == detect_card_type(digits)
    IN  IF validate_offer(offer) # ""
        THEN Raised(validate_offer(offer), store, activity)
        ELSE IF Len(digits) < 13
        THEN Raised("Card number too short", store, activity)
        ELSE IF validate_card_length(digits, card_brand) # ""
        THEN Raised("Invalid card", store, activity)
        ELSE IF check_card_velocity(activity, digits) # ""
        THEN Failed(check_card_velocity(activity, digits), store, activity, digits)
        ELSE IF ~validate_expiry(payment.expiry_mm_yy)
        THEN Failed("Invalid expiry", store, activity, digits)
        ELSE IF ~expiry_is_future(payment.expiry_mm_yy, clock)
        THEN Failed("Card expired", store, activity, digits)
        ELSE IF ~luhn_check(digits)
        THEN Failed("Invalid card", store, activity, digits)
        ELSE IF ~validate_cvv(payment.cvv)
        THEN Failed("Invalid CVV", store, activity, digits)
        ELSE Settle(offer, payment, idem_key, digits, card_brand, store,
                    ActivityPut(activity, digits, 0))

\* pay(offer, payment, idem_key) run against the given store, counters and
\* clock: the error raised ("" if none), the Receipt returned, and the store
\* and counters it leaves behind
pay(offer, payment, idem_key, store, activity, clock) ==
    LET digits     == digits_of(payment.card_number)
        card_brand == detect_card_type(digits)
    IN  IF validate_offer(offer) # ""
        THEN Raised(validate_offer(offer), store, activity)
        ELSE IF Len(digits) < 13
        THEN Raised("Card number too short", store, activity)
        ELSE IF validate_card_length(digits, card_brand) # ""
        THEN Raised("Invalid card", store, activity)
        ELSE IF check_card_velocity(activity, digits) # ""
        THEN Raised(check_card_velocity(activity, digits), store, activity)
        ELSE IF ~validate_expiry(payment.expiry_mm_yy)
        THEN Failed("Invalid expiry", store, activity, digits)
        ELSE IF ~expiry_is_future(payment.expiry_mm_yy, clock)
        THEN Failed("Card expired", store, activity, digits)
        ELSE IF ~luhn_check(digits)
        THEN Failed("Invalid card", store, activity, digits)
        ELSE IF ~validate_cvv(payment.cvv)
        THEN Failed("Invalid CVV", store, activity, digits)
        ELSE Settle(offer, payment, idem_key, digits, card_brand, store,
                    ActivityPut(activity, digits, 0))

----------------------------------------------------------------------------
(* Text helpers for Part II                                                *)

LowerOf ==
    ("A" :> "a") @@ ("B" :> "b") @@ ("C" :> "c") @@ ("D" :> "d") @@ ("E" :> "e") @@ ("F" :> "f") @@
    ("G" :> "g") @@ ("H" :> "h") @@ ("I" :> "i") @@ ("J" :> "j") @@ ("K" :> "k") @@ ("L" :> "l") @@
    ("M" :> "m") @@ ("N" :> "n") @@ ("O" :> "o") @@ ("P" :> "p") @@ ("Q" :> "q") @@ ("R" :> "r") @@
    ("S" :> "s") @@ ("T" :> "t") @@ ("U" :> "u") @@ ("V" :> "v") @@ ("W" :> "w") @@ ("X" :> "x") @@
    ("Y" :> "y") @@ ("Z" :> "z")

\* str.lower()
Lower(s) == [i \in 1..Len(s) |-> IF s[i] \in DOMAIN LowerOf THEN LowerOf[s[i]] ELSE s[i]]

\* str.rstrip(ch)
RECURSIVE RStrip(_, _)
RStrip(s, ch) ==
    IF Len(s) > 0 /\ s[Len(s)] = ch THEN RStrip(SubSeq(s, 1, Len(s) - 1), ch) ELSE s

\* sub in s
Contains(s, sub) ==
    \E i \in 1..(Len(s) - Len(sub) + 1) : SubSeq(s, i, i + Len(sub) - 1) = sub

\* " ".join(filter(None, parts))
RECURSIVE JoinNonEmpty(_)
JoinNonEmpty(parts) ==
    IF parts = <<>> THEN <<>>
    ELSE LET rest == JoinNonEmpty(Tail(parts))
         IN  IF Head(parts) = <<>> THEN rest
             ELSE IF rest = <<>> THEN Head(parts)
             ELSE Head(parts) \o <<" ">> \o rest

\* " ".join(parts)
RECURSIVE Join(_)
Join(parts) ==
    IF parts = <<>> THEN <<>>
    ELSE IF Len(parts) = 1 THEN Head(parts)
    ELSE Head(parts) \o <<" ">> \o Join(Tail(parts))

LowercaseLetters == <<"a", "b", "c", "d", "e", "f", "g", "h", "i", "j", "k", "l", "m", "n", "o", "p", "q", "r", "s", "t", "u", "v", "w", "x", "y", "z">>

CodePoint(ch) == CHOOSE i \in 1..Len(LowercaseLetters) : LowercaseLetters[i] = ch

\* a < b on Python strings of lowercase letters: lexicographic by code point
RECURSIVE LexLess(_, _)
LexLess(a, b) ==
    IF b = <<>> THEN FALSE
    ELSE IF a = <<>> THEN TRUE
    ELSE IF a[1] = b[1] THEN LexLess(Tail(a), Tail(b))
    ELSE CodePoint(a[1]) < CodePoint(b[1])

RiskText == [low |-> <<"l", "o", "w">>, medium |-> <<"m", "e", "d", "i", "u", "m">>, high |-> <<"h", "i", "g", "h">>]

\* the risk band order low < medium < high
RiskRank == [low |-> 0, medium |-> 1, high |-> 2]

----------------------------------------------------------------------------
(* apps/agent4_trust/main.py                                               *)

Mockazon == <<"M", "o", "c", "k", "a", "z", "o", "n">>

Shoply == <<"S", "h", "o", "p", "l", "y">>

SuperMart == <<"S", "u", "p", "e", "r", "M", "a", "r", "t">>

MegaBuy == <<"M", "e", "g", "a", "B", "u", "y">>

GigaDeal == <<"G", "i", "g", "a", "D", "e", "a", "l">>

\* happy_reviews_pct is kept in hundredths (0.92 -> 92)
VENDOR_PROFILES ==
    (Mockazon :> [tls |-> TRUE, domain_age_days |-> 2400, has_policy_pages |-> TRUE,
                  historical_issues |-> FALSE, happy_reviews_pct |-> 92,
                  accepts_returns |-> TRUE, average_refund_time_days |-> 5]) @@
    (Shoply :> [tls |-> TRUE, domain_age_days |-> 1100, has_policy_pages |-> TRUE,
                historical_issues |-> FALSE, happy_reviews_pct |-> 88,
                accepts_returns |-> TRUE, average_refund_time_days |-> 7]) @@
    (SuperMart :> [tls |-> TRUE, domain_age_days |-> 3200, has_policy_pages |-> TRUE,
                   historical_issues |-> FALSE, happy_reviews_pct |-> 85,
                   accepts_returns |-> TRUE, average_refund_time_days |-> 6]) @@
    (MegaBuy :> [tls |-> TRUE, domain_age_days |-> 650, has_policy_pages |-> TRUE,
                 historical_issues |-> FALSE, happy_reviews_pct |-> 81,
                 accepts_returns |-> TRUE, average_refund_time_days |-> 8]) @@
    (GigaDeal :> [tls |-> TRUE, domain_age_days |-> 120, has_policy_pages |-> FALSE,
                  historical_issues |-> TRUE, happy_reviews_pct |-> 64,
                  accepts_returns |-> FALSE, average_refund_time_days |-> 14])

\* the profile assess uses for a vendor it does not know
DefaultProfile ==
    [tls |-> FALSE, domain_age_days |-> 45, has_policy_pages |-> FALSE,
     historical_issues |-> TRUE, happy_reviews_pct |-> 50,
     accepts_returns |-> FALSE, average_refund_time_days |-> 21]

suspicious_vendor_name(vendor) ==
    \E trigger \in {<<"s", "c", "a", "m">>, <<"f", "r", "a", "u", "d">>, <<"u", "n", "k", "n", "o", "w", "n">>, <<"d", "e", "a", "l", "z">>, <<"c", "l", "i", "c", "k">>} :
        Contains(Lower(vendor), trigger)

suspicious_url(url) ==
    \E trigger \in {<<"s", "c", "a", "m">>, <<"c", "l", "i", "c", "k">>, <<"m", "a", "l", "w", "a", "r", "e">>, <<"u", "n", "k", "n", "o", "w", "n">>} :
        Contains(Lower(url), trigger)

\* the additive score of _compute_risk, in half points (0.5 -> 1)
RiskScoreX2(profile, offer) ==
    (IF ~profile.tls THEN 4 ELSE 0)
    + (IF ~profile.has_policy_pages THEN 2 ELSE 0)
    + (IF profile.domain_age_days < 365 THEN 2 ELSE 0)
    + (IF profile.domain_age_days < 90 THEN 2 ELSE 0)
    + (IF profile.historical_issues THEN 4 ELSE 0)
    + (IF profile.happy_reviews_pct < 75 THEN 2 ELSE 0)
    + (IF profile.happy_reviews_pct < 60 THEN 2 ELSE 0)
    + (IF ~profile.accepts_returns THEN 4
       ELSE IF profile.average_refund_time_days > 14 THEN 2
       ELSE IF profile.average_refund_time_days > 10 THEN 1
       ELSE 0)
    + (IF suspicious_vendor_name(offer.vendor) \/ suspicious_url(offer.url) THEN 4 ELSE 0)

compute_risk(profile, offer) ==
    LET score == RiskScoreX2(profile, offer)
    IN  IF score <= 2 THEN "low"
        ELSE IF score <= 7 THEN "medium"
        ELSE "high"

\* variant: the target band replaces the current one
raise_risk_Target(current, target) == target

raise_risk(current, target) ==
    LET order == <<"low", "medium", "high">>
        index(r) == CHOOSE i \in 1..3 : order[i] = r
    IN  IF current \in {"low", "medium", "high"} /\ target \in {"low", "medium", "high"}
        THEN order[IF index(current) >= index(target) THEN index(current) ELSE index(target)]
        ELSE target

\* assess(offer) with no price-reference file (compute_*_z return None) and
\* USE_LANGCHAIN_TRUST unset: the rule-based assessment
assess(offer) ==
    LET profile == IF offer.vendor \in DOMAIN VENDOR_PROFILES
                   THEN VENDOR_PROFILES[offer.vendor] ELSE DefaultProfile
    IN  [vendor           |-> offer.vendor,
         tls              |-> profile.tls,
         domain_age_days  |-> profile.domain_age_days,
         has_policy_pages |-> profile.has_policy_pages,
         risk             |-> compute_risk(profile, offer),
         auth_reasons     |-> <<>>,
         brand_mismatch   |-> "None",
         domain_mismatch  |-> "None",
         vision_mismatch  |-> "None",
         replica_terms    |-> {}]

NoTrust ==
    [vendor |-> <<>>, tls |-> FALSE, domain_age_days |-> 0, has_policy_pages |-> FALSE,
     risk |-> "", auth_reasons |-> <<>>, brand_mismatch |-> "None",
     domain_mismatch |-> "None", vision_mismatch |-> "None", replica_terms |-> {}]

----------------------------------------------------------------------------
(* agentic_graph/nodes.py and apps/coordinator/saga.py: S3 selection, S4   *)

REPLICA_TERMS ==
    {<<"r", "e", "p", "l", "i", "c", "a">>,
     <<"k", "n", "o", "c", "k", "o", "f", "f">>,
     <<"f", "a", "k", "e">>,
     <<"d", "u", "p", "e">>,
     <<"i", "n", "s", "p", "i", "r", "e", "d">>,
     <<"l", "o", "o", "k", "a", "l", "i", "k", "e">>,
     <<"m", "i", "r", "r", "o", "r", " ", "q", "u", "a", "l", "i", "t", "y">>,
     <<"a", "a", "a">>,
     <<"c", "o", "p", "y">>,
     <<"c", "o", "m", "p", "a", "t", "i", "b", "l", "e", " ", "w", "i", "t", "h">>,
     <<"s", "t", "y", "l", "e">>}

\* env defaults read by trust_node
S4_COMP_TOPK == 3

S4_COMP_PRICE_WINDOW_PCT == 10

S4_COMP_EXTRA_LATENCY_MS == 500

\* Optional[int] / Optional[Offer] values: None has some = FALSE
NoneInt == [some |-> FALSE, value |-> 0]

SomeInt(n) == [some |-> TRUE, value |-> n]

NoneOffer ==
    [vendor |-> <<>>, title |-> <<>>, description |-> <<>>, keywords |-> <<>>,
     domain_name |-> <<>>, price_usd |-> 0, url |-> <<>>, score |-> 0]

normalize_url(url) == Lower(RStrip(url, "/"))

\* _pick_best_offer (graph) and the selection loop of run_saga
pick_best_offer(offer_list, preferred_url) ==
    IF offer_list = <<>> THEN NoneOffer
    ELSE IF preferred_url # <<>>
            /\ \E i \in 1..Len(offer_list) :
                   normalize_url(offer_list[i].url) = normalize_url(preferred_url)
    THEN offer_list[CHOOSE i \in 1..Len(offer_list) :
            /\ normalize_url(offer_list[i].url) = normalize_url(preferred_url)
            /\ \A j \in 1..(i - 1) :
                   normalize_url(offer_list[j].url) # normalize_url(preferred_url)]
    ELSE offer_list[1]

\* an entry of state.events / SagaLog.events; fields a stage does not set
\* keep the values below
Event(stage) ==
    [stage |-> stage, ok |-> TRUE, vendor |-> <<>>, risk |-> "",
     price_delta_pct |-> <<>>, switched |-> FALSE, reason |-> "",
     strict_count |-> 0, fuzzy_count |-> 0]

\* the cross-checks of trust_node against the vision hypothesis and the
\* listing text, applied to the assessment of the best offer
cross_check(t, offer, hypothesis) ==
    LET domain_name     == Lower(offer.domain_name)
        domain_mismatch == domain_name # <<>> /\ ~StartsWith(domain_name, <<"a", "m", "a", "z", "o", "n">>)
        vision_brand    == Lower(hypothesis.brand)
        offer_brand     == Lower(offer.vendor)
        brand_mismatch  == /\ vision_brand # <<>>
                           /\ offer_brand # <<>>
                           /\ ~Contains(offer_brand, vision_brand)
        color           == Lower(hypothesis.color)
        blob            == Lower(JoinNonEmpty(<<offer.title, offer.description>>))
        color_mismatch  == color # <<>> /\ ~Contains(blob, color)
        text_blob       == Lower(JoinNonEmpty(<<offer.title, offer.description,
                                                Join(offer.keywords)>>))
        replica_hits    == {term \in REPLICA_TERMS : Contains(text_blob, term)}
        reasons         ==
            (IF domain_mismatch THEN <<"Domain is not an Amazon marketplace">> ELSE <<>>)
            \o (IF brand_mismatch THEN <<"Vision brand differs from listing">> ELSE <<>>)
            \o (IF color_mismatch THEN <<"Vision color not present in listing">> ELSE <<>>)
            \o (IF replica_hits # {} THEN <<"Replica cues">> ELSE <<>>)
        vision_mismatch == brand_mismatch \/ color_mismatch
        r1 == IF replica_hits # {} THEN raise_risk(t.risk, "high") ELSE t.risk
        r2 == IF domain_mismatch THEN raise_risk(r1, "medium") ELSE r1
        r3 == IF vision_mismatch THEN raise_risk(r2, "medium") ELSE r2
    IN  [t EXCEPT !.domain_mismatch = IF domain_mismatch THEN "True" ELSE @,
                  !.brand_mismatch  = IF brand_mismatch THEN "True" ELSE @,
                  !.vision_mismatch = IF vision_mismatch THEN "True" ELSE "False",
                  !.replica_terms   = replica_hits,
                  !.auth_reasons    = IF t.auth_reasons \o reasons # <<>>
                                      THEN t.auth_reasons \o reasons ELSE @,
                  !.risk            = r3]

\* candidate_trust.risk < trust.risk, as the code writes it: on the strings
risk_less(a, b) == LexLess(RiskText[a], RiskText[b])

\* variant: every candidate passes the price check
price_ok_Always(baseline, candidate_price, price_window_pct) == TRUE

\* the price window check of the compensation loop
price_ok(baseline, candidate_price, price_window_pct) ==
    IF baseline # 0 /\ price_window_pct >= 0
    THEN \* 100.0 * ((candidate - baseline) / baseline) <= price_window_pct
         IF baseline > 0
         THEN 100 * (candidate_price - baseline) <= price_window_pct * baseline
         ELSE 100 * (candidate_price - baseline) >= price_window_pct * baseline
    ELSE TRUE

\* round(100.0 * ((candidate - baseline) / baseline), 2) in hundredths of a
\* percent, <<>> for None
price_delta_pct(baseline, candidate_price) ==
    IF baseline = 0 THEN <<>>
    ELSE <<(2 * 10000 * (candidate_price - baseline) + baseline) \div (2 * baseline)>>

\* K, price_window_pct and extra_cap_ms as trust_node resolves them
comp_K(state) ==
    IF state.comp_top_k.some THEN state.comp_top_k.value ELSE S4_COMP_TOPK

comp_window(state) ==
    IF state.comp_price_window_pct.some
    THEN state.comp_price_window_pct.value ELSE S4_COMP_PRICE_WINDOW_PCT

comp_cap_ms(state) ==
    IF state.latency_cap_ms.some
    THEN state.latency_cap_ms.value ELSE S4_COMP_EXTRA_LATENCY_MS

\* variant: the guard lets one more candidate through
attempts_exhausted_OffByOne(attempts, K) == attempts > K

\* the loop guard "if attempts >= K: break"
attempts_exhausted(attempts, K) == attempts >= K

\* [best] + [offer for offer in offers if offer != best] when offers[0] != best
ensure_best_first(offer_list, best) ==
    IF offer_list # <<>> /\ offer_list[1] # best
    THEN <<best>> \o SelectSeq(offer_list, LAMBDA o : o # best)
    ELSE offer_list

----------------------------------------------------------------------------
(* One run from the end of S3 to the end of S4                             *)

NoLoc ==
    [K |-> 0, price_window_pct |-> 0, extra_cap_ms |-> 0, baseline |-> 0,
     attempts |-> 0, i |-> 0, elapsed_ms |-> 0, trust |-> NoTrust,
     updated_best |-> NoneOffer, updated_trust |-> NoTrust]

NoRequest ==
    [preferred_offer_url |-> <<>>, comp_top_k |-> NoneInt,
     comp_price_window_pct |-> NoneInt, latency_cap_ms |-> NoneInt,
     hypothesis |-> [brand |-> <<>>, color |-> <<>>]]

S4Idle ==
    /\ impl = "none"
    /\ request = NoRequest
    /\ offers = <<>>
    /\ best_offer = NoneOffer
    /\ trust = NoTrust
    /\ events = <<>>
    /\ evals = <<>>
    /\ loc = NoLoc
    /\ pc = "idle"

\* S3 has merged and sorted the offers; it now picks the best offer.
\* run_saga fails the run when there is no offer, sourcing_node goes on.
SelectBest ==
    /\ pc = "s3"
    /\ best_offer' = pick_best_offer(offers, request.preferred_offer_url)
    /\ pc' = IF impl = "coordinator" /\ offers = <<>> THEN "failed" ELSE "s4"
    /\ events' = IF impl = "coordinator" /\ offers = <<>>
                 THEN Append(events, [Event("S3_SOURCING") EXCEPT !.ok = FALSE,
                                                             !.reason = "no offers"])
                 ELSE Append(events, [Event("S3_SOURCING") EXCEPT
                                          !.vendor = best_offer'.vendor])
    /\ UNCHANGED <<impl, request, offers, trust, evals, loc>>
    /\ UNCHANGED payVars
    /\ UNCHANGED extVars

\* trust_node up to its compensation loop: the no-offer exit, or the trust
\* evaluation of the best offer, the S4_TRUST event, the cross-checks and
\* the loop set-up
TrustNodeBegin ==
    /\ pc = "s4"
    /\ impl = "graph"
    /\ IF best_offer = NoneOffer
       THEN /\ events' = Append(events, [Event("S4_TRUST") EXCEPT
                                            !.ok = FALSE, !.reason = "no_offer"])
            /\ pc' = "done"
            /\ UNCHANGED <<evals, loc>>
       ELSE LET assessed == assess(best_offer)
                checked  == cross_check(assessed, best_offer, request.hypothesis)
            IN  /\ evals' = Append(evals, best_offer)
                /\ events' = Append(events, [Event("S4_TRUST") EXCEPT
                                                !.vendor = best_offer.vendor,
                                                !.risk = assessed.risk])
                /\ loc' = [K                |-> comp_K(request),
                           price_window_pct |-> comp_window(request),
                           extra_cap_ms     |-> comp_cap_ms(request),
                           baseline         |-> best_offer.price_usd,
                           attempts         |-> 0,
                           i                |-> 1,
                           elapsed_ms       |-> 0,
                           trust            |-> checked,
                           updated_best     |-> best_offer,
                           updated_trust    |-> checked]
                /\ pc' = IF checked.risk \in {"medium", "high"} /\ Len(offers) > 1
                         THEN "s4_loop" ELSE "s4_return"
    /\ UNCHANGED <<impl, request, offers, best_offer, trust>>
    /\ UNCHANGED payVars
    /\ UNCHANGED extVars

CompensateStep_NoBreak(duration_ms) ==
    /\ pc = "s4_loop"
    /\ IF loc.i > Len(offers) \/ attempts_exhausted(loc.attempts, loc.K)
       THEN /\ pc' = "s4_return"
            /\ UNCHANGED <<events, evals, loc>>
       ELSE LET candidate == offers[loc.i]
            IN  IF candidate = best_offer
                THEN /\ loc' = [loc EXCEPT !.i = @ + 1]
                     /\ UNCHANGED <<events, evals, pc>>
                ELSE IF loc.elapsed_ms > loc.extra_cap_ms
                THEN /\ pc' = "s4_return"
                     /\ UNCHANGED <<events, evals, loc>>
                ELSE LET ok              == price_ok(loc.baseline, candidate.price_usd,
                                                     loc.price_window_pct)
                         candidate_trust == assess(candidate)
                         safer           == risk_less(candidate_trust.risk, loc.trust.risk)
                         switched        == safer /\ ok
                     IN  /\ evals' = Append(evals, candidate)
                         /\ events' = Append(events, [Event("S4_COMPENSATE") EXCEPT
                                 !.vendor = candidate.vendor,
                                 !.risk = candidate_trust.risk,
                                 !.price_delta_pct =
                                     price_delta_pct(loc.baseline, candidate.price_usd),
                                 !.switched = switched])
                         /\ loc' = [loc EXCEPT
                                 !.attempts = @ + 1,
                                 !.i = @ + 1,
                                 !.elapsed_ms = @ + duration_ms,
                                 !.updated_best = IF switched THEN candidate ELSE @,
                                 !.updated_trust = IF switched THEN candidate_trust ELSE @]
                         /\ pc' = "s4_loop"
    /\ UNCHANGED <<impl, request, offers, best_offer, trust>>
    /\ UNCHANGED payVars
    /\ UNCHANGED extVars

\* one iteration of "for candidate in offers": leave the loop, skip the
\* current best, or evaluate the candidate (which takes duration_ms) and
\* decide the switch
CompensateStep(duration_ms) ==
    /\ pc = "s4_loop"
    /\ IF loc.i > Len(offers) \/ attempts_exhausted(loc.attempts, loc.K)
       THEN /\ pc' = "s4_return"
            /\ UNCHANGED <<events, evals, loc>>
       ELSE LET candidate == offers[loc.i]
            IN  IF candidate = best_offer
                THEN /\ loc' = [loc EXCEPT !.i = @ + 1]
                     /\ UNCHANGED <<events, evals, pc>>
                ELSE IF loc.elapsed_ms > loc.extra_cap_ms
                THEN /\ pc' = "s4_return"
                     /\ UNCHANGED <<events, evals, loc>>
                ELSE LET ok              == price_ok(loc.baseline, candidate.price_usd,
                                                     loc.price_window_pct)
                         candidate_trust == assess(candidate)
                         safer           == risk_less(candidate_trust.risk, loc.trust.risk)
                         switched        == safer /\ ok
                     IN  /\ evals' = Append(evals, candidate)
                         /\ events' = Append(events, [Event("S4_COMPENSATE") EXCEPT
                                 !.vendor = candidate.vendor,
                                 !.risk = candidate_trust.risk,
                                 !.price_delta_pct =
                                     price_delta_pct(loc.baseline, candidate.price_usd),
                                 !.switched = switched])
                         /\ loc' = [loc EXCEPT
                                 !.attempts = @ + 1,
                                 !.i = @ + 1,
                                 !.elapsed_ms = @ + duration_ms,
                                 !.updated_best = IF switched THEN candidate ELSE @,
                                 !.updated_trust = IF switched THEN candidate_trust ELSE @]
                         /\ pc' = IF switched THEN "s4_return" ELSE "s4_loop"
    /\ UNCHANGED <<impl, request, offers, best_offer, trust>>
    /\ UNCHANGED payVars
    /\ UNCHANGED extVars

TrustNodeReturn_OriginalTrust ==
    /\ pc = "s4_return"
    /\ best_offer' = loc.updated_best
    /\ trust' = loc.trust
    /\ pc' = "done"
    /\ UNCHANGED <<impl, request, offers, events, evals, loc>>
    /\ UNCHANGED payVars
    /\ UNCHANGED extVars

\* trust_node returns {"best_offer", "trust", "events", ...}; the graph
\* merges the update into the state
TrustNodeReturn ==
    /\ pc = "s4_return"
    /\ best_offer' = loc.updated_best
    /\ trust' = loc.updated_trust
    /\ pc' = "done"
    /\ UNCHANGED <<impl, request, offers, events, evals, loc>>
    /\ UNCHANGED payVars
    /\ UNCHANGED extVars

\* run_saga, S4: call_trust(best) returns or raises; without a risky result
\* or a second offer the run goes straight to the reordering
SagaTrust(raises) ==
    /\ pc = "s4"
    /\ impl = "coordinator"
    /\ IF raises
       THEN /\ events' = Append(events, [Event("S4_TRUST") EXCEPT
                                            !.ok = FALSE, !.reason = "error"])
            /\ pc' = "failed"
            /\ UNCHANGED <<offers, trust, evals>>
       ELSE LET assessed == assess(best_offer)
                risky    == assessed.risk \in {"medium", "high"} /\ Len(offers) > 1
            IN  /\ evals' = Append(evals, best_offer)
                /\ trust' = assessed
                /\ events' = Append(events, [Event("S4_TRUST") EXCEPT
                                                !.risk = assessed.risk])
                /\ offers' = IF risky THEN offers
                             ELSE ensure_best_first(offers, best_offer)
                /\ pc' = IF risky THEN "saga_comp" ELSE "done"
    /\ UNCHANGED <<impl, request, best_offer, loc>>
    /\ UNCHANGED payVars
    /\ UNCHANGED extVars

\* run_saga, simple compensation with the second offer, then the reordering
\* that puts the winning offer first
SagaCompensate(raises) ==
    /\ pc = "saga_comp"
    /\ LET alt       == offers[2]
           alt_trust == assess(alt)
           picked    == ~raises /\ risk_less(alt_trust.risk, trust.risk)
           best      == IF picked THEN alt ELSE best_offer
       IN  /\ evals' = IF raises THEN evals ELSE Append(evals, alt)
           /\ best_offer' = best
           /\ trust' = IF picked THEN alt_trust ELSE trust
           /\ events' =
                IF raises
                THEN Append(events, [Event("S4_COMPENSATE") EXCEPT
                                        !.reason = "assess_alt_failed"])
                ELSE IF picked
                THEN Append(events, [Event("S4_COMPENSATE") EXCEPT
                                        !.risk = alt_trust.risk, !.switched = TRUE])
                ELSE events
           /\ offers' = ensure_best_first(offers, best)
    /\ pc' = "done"
    /\ UNCHANGED <<impl, request, loc>>
    /\ UNCHANGED payVars
    /\ UNCHANGED extVars

----------------------------------------------------------------------------
(* Callers of pay: the checkout endpoint and checkout_node both await      *)
(* pay(); pay contains no await, so once a call starts it runs to its      *)
(* return or raise without interleaving.  Calls issued by different        *)
(* requests are pending together and start in any order.                   *)

Callers == {"c1", "c2"}

CardVisa ==
    <<"4", "2", "4", "2", "4", "2", "4", "2", "4", "2", "4", "2", "4", "2", "4", "2">>

ExpiryGood == <<"1", "2", "/", "2", "9">>

CvvGood == <<"1", "2", "3">>

CvvBad == <<"1", "2", "a">>

KeyAbc == <<"a", "b", "c">>

PayOffers ==
    {[vendor |-> "Mockazon", title |-> "Sample", price_usd |-> 25],
     [vendor |-> "Mockazon", title |-> "Sample", price_usd |-> 40]}

PayPayments ==
    {[card_number |-> CardVisa, expiry_mm_yy |-> ExpiryGood, cvv |-> CvvGood, amount_usd |-> 25],
     [card_number |-> CardVisa, expiry_mm_yy |-> ExpiryGood, cvv |-> CvvGood, amount_usd |-> 1],
     [card_number |-> CardVisa, expiry_mm_yy |-> ExpiryGood, cvv |-> CvvBad, amount_usd |-> 25]}

PayKeys == {<<>>, KeyAbc}

NoOffer == [vendor |-> "", title |-> "", price_usd |-> 0]

NoPayment == [card_number |-> <<>>, expiry_mm_yy |-> <<>>, cvv |-> <<>>, amount_usd |-> 0]

NoCall ==
    [status |-> "idle", offer |-> NoOffer, payment |-> NoPayment,
     idem_key |-> <<>>, error |-> "", receipt |-> NoReceipt,
     fresh |-> FALSE, ranWith |-> {}]

----------------------------------------------------------------------------
(* apps/coordinator/metrics_tokens.py and apps/coordinator/config.py       *)

\* the stages whose budgets the model carries
TokenStages == {"S3", "S4"}

TOKEN_BUDGETS == [S3 |-> 1500, S4 |-> 1200]

TOKEN_POLICY == "truncate"

Policies == {"warn", "truncate", "fallback", "block"}

\* the sourcing strategies; each call of _score_candidates constructs its
\* own TokenBudgeter
Strategies == {"strict", "fuzzy"}

\* the calls of _score_candidates a run can make: the two strategies and
\* the legacy offers_for_intent of sourcing_node's except branch
Paths == Strategies \cup {"legacy"}

Min(a, b) == IF a <= b THEN a ELSE b

Max(a, b) == IF a >= b THEN a ELSE b

NoBudgeter ==
    [exists |-> FALSE, budgets |-> [st \in TokenStages |-> 0], policy |-> "",
     used |-> [st \in TokenStages |-> 0]]

\* TokenBudgeter.__init__: used starts at 0 for every budgeted stage
NewBudgeter(budgets, policy) ==
    [exists |-> TRUE, budgets |-> budgets, policy |-> policy,
     used |-> [st \in TokenStages |-> 0]]

remaining_Signed(b, state) == b.budgets[state] - b.used[state]

\* TokenBudgeter.remaining
remaining(b, state) == Max(0, b.budgets[state] - b.used[state])

\* the TokenEvent charge writes
TokenEventOf(b, run_id, state, role, n_tokens) ==
    [run_id |-> run_id, state |-> state, role |-> role, n_tokens |-> n_tokens,
     budget_cap |-> b.budgets[state],
     over_budget |-> (b.used[state] + n_tokens) > b.budgets[state],
     policy |-> b.policy]

\* variant: the whole amount is added
charge_Uncapped(b, state, n_tokens) ==
    [b EXCEPT !.used[state] = @ + n_tokens]

\* TokenBudgeter.charge, the budgeter it leaves
charge(b, state, n_tokens) ==
    [b EXCEPT !.used[state] = @ + Min(n_tokens, Max(0, b.budgets[state] - @))]

enforce_before_call_Strict(b, state, planned_prompt_tokens) ==
    IF b.used[state] + planned_prompt_tokens < b.budgets[state]
    THEN "ok" ELSE b.policy

\* TokenBudgeter.enforce_before_call
enforce_before_call(b, state, planned_prompt_tokens) ==
    IF b.used[state] + planned_prompt_tokens <= b.budgets[state]
    THEN "ok" ELSE b.policy

----------------------------------------------------------------------------
(* S3 and run-level state outside a run                                    *)

NoStrategy ==
    [pc |-> "idle", shortlisted |-> <<>>, act |-> "", provider_calls |-> 0,
     result |-> <<>>]

NoSourcing ==
    [langchain |-> FALSE, import_ok |-> TRUE, token_budgets |-> NoneInt,
     token_policy |-> "", strategy |-> [st \in Paths |-> NoStrategy]]

NonePayment == [some |-> FALSE, value |-> NoPayment]

SomePayment(p) == [some |-> TRUE, value |-> p]

NoRun ==
    [include_checkout |-> FALSE, payment |-> NonePayment, idempotency_key |-> <<>>,
     receipt |-> NoReceipt, error |-> ""]

\* the budgets map and policy _score_candidates hands to its TokenBudgeter:
\* "token_budgets or TOKEN_BUDGETS", "token_policy or TOKEN_POLICY"
budgets_in_force(cfg) ==
    IF cfg.token_budgets.some
    THEN [TOKEN_BUDGETS EXCEPT !["S3"] = cfg.token_budgets.value]
    ELSE TOKEN_BUDGETS

policy_in_force(cfg) ==
    IF cfg.token_policy # "" THEN cfg.token_policy ELSE TOKEN_POLICY

RECURSIVE valid_order_AllowRepeats(_, _, _)
valid_order_AllowRepeats(ranked_indices, n, seen) ==
    IF ranked_indices = <<>> THEN <<>>
    ELSE LET idx == Head(ranked_indices)
         IN  IF 0 <= idx /\ idx < n
             THEN <<idx>> \o valid_order_AllowRepeats(Tail(ranked_indices), n, seen \cup {idx})
             ELSE valid_order_AllowRepeats(Tail(ranked_indices), n, seen)

\* the tail of rerank_offers_with_llm: the valid, not yet seen indices of
\* ranked_indices in their order, then every index left over (0-based)
RECURSIVE valid_order(_, _, _)
valid_order(ranked_indices, n, seen) ==
    IF ranked_indices = <<>> THEN <<>>
    ELSE LET idx == Head(ranked_indices)
         IN  IF 0 <= idx /\ idx < n /\ idx \notin seen
             THEN <<idx>> \o valid_order(Tail(ranked_indices), n, seen \cup {idx})
             ELSE valid_order(Tail(ranked_indices), n, seen)

apply_ranking(offer_list, ranked_indices) ==
    LET n      == Len(offer_list)
        ranked == valid_order(ranked_indices, n, {})
        seen   == {ranked[i] : i \in 1..Len(ranked)}
        rest   == SelectSeq([i \in 1..n |-> i - 1], LAMBDA idx : idx \notin seen)
        order  == ranked \o rest
    IN  [i \in 1..n |-> offer_list[order[i] + 1]]

\* variant: the first offer seen for a URL is kept
RECURSIVE add_all_KeepFirst(_, _)
add_all_KeepFirst(merged, lst) ==
    IF lst = <<>> THEN merged
    ELSE LET o    == Head(lst)
             same == {i \in 1..Len(merged) :
                         normalize_url(merged[i].url) = normalize_url(o.url)}
         IN  IF same = {} THEN add_all_KeepFirst(Append(merged, o), Tail(lst))
             ELSE add_all_KeepFirst(merged, Tail(lst))

\* _add_all: an offer is appended under its normalised URL, or replaces the
\* entry of that URL in place when its score is strictly higher
RECURSIVE add_all(_, _)
add_all(merged, lst) ==
    IF lst = <<>> THEN merged
    ELSE LET o    == Head(lst)
             same == {i \in 1..Len(merged) :
                         normalize_url(merged[i].url) = normalize_url(o.url)}
         IN  IF same = {} THEN add_all(Append(merged, o), Tail(lst))
             ELSE LET i == CHOOSE j \in same : TRUE
                  IN  IF o.score > merged[i].score
                      THEN add_all([merged EXCEPT ![i] = o], Tail(lst))
                      ELSE add_all(merged, Tail(lst))

\* sorted(..., key=score, reverse=True): stable, equal scores keep their order
RECURSIVE sorted_by_score(_)
sorted_by_score(lst) ==
    IF lst = <<>> THEN <<>>
    ELSE LET rest   == sorted_by_score(SubSeq(lst, 1, Len(lst) - 1))
             o      == lst[Len(lst)]
             before == SelectSeq(rest, LAMBDA q : q.score >= o.score)
             after  == SelectSeq(rest, LAMBDA q : q.score < o.score)
         IN  before \o <<o>> \o after

\* the merge of sourcing_node
merge_offers(strict_offers, fuzzy_offers) ==
    sorted_by_score(add_all(add_all(<<>>, strict_offers), fuzzy_offers))

\* no function has been applied
NoFn == [name |-> "", args |-> <<>>, result |-> <<>>]

ExtIdle ==
    /\ budgeter = [st \in Paths |-> NoBudgeter]
    /\ token_log = <<>>
    /\ sourcing = NoSourcing
    /\ run = NoRun
    /\ fn = NoFn

----------------------------------------------------------------------------
(* The checkout store at process start and the calls made on it            *)

PayInit ==
    /\ RECEIPT_STORE = << >>
    /\ CARD_ACTIVITY = << >>
    /\ now = <<2026, 11>>
    /\ calls = [c \in Callers |-> NoCall]

\* a caller issues pay(offer, payment, idem_key); the call is now pending.
\* ranWith of a finished call names the callers whose current call was
\* pending while it ran.
Call(c, offer, payment, idem_key) ==
    /\ calls[c].status \in {"idle", "done"}
    /\ calls' = [d \in Callers |->
                    IF d = c
                    THEN [NoCall EXCEPT !.status = "pending", !.offer = offer,
                                        !.payment = payment, !.idem_key = idem_key]
                    ELSE [calls[d] EXCEPT !.ranWith = @ \ {c}]]
    /\ UNCHANGED <<RECEIPT_STORE, CARD_ACTIVITY, now>>
    /\ UNCHANGED s4Vars
    /\ UNCHANGED extVars

\* the pending call of caller c runs pay from its first line to its return
\* or raise
Pay(c) ==
    /\ calls[c].status = "pending"
    /\ LET r == pay(calls[c].offer, calls[c].payment, calls[c].idem_key,
                    RECEIPT_STORE, CARD_ACTIVITY, now)
       IN  /\ RECEIPT_STORE' = r.store
           /\ CARD_ACTIVITY' = r.activity
           /\ calls' = [calls EXCEPT ![c] =
                 [@ EXCEPT !.status = "done", !.error = r.error,
                           !.receipt = r.receipt, !.fresh = r.fresh,
                           !.ranWith =
                               {d \in Callers \ {c} : calls[d].status = "pending"}]]
    /\ UNCHANGED now
    /\ UNCHANGED s4Vars
    /\ UNCHANGED extVars

Init == PayInit /\ S4Idle /\ ExtIdle

Next ==
    \/ \E c \in Callers, offer \in PayOffers, payment \in PayPayments, k \in PayKeys :
          Call(c, offer, payment, k)
    \/ \E c \in Callers : Pay(c)

Spec == Init /\ [][Next]_vars

----------------------------------------------------------------------------
(* The S3/S4 runs explored                                                 *)

MaxOffers == 4

MaxTopK == 2

UrlGiga == <<"h", "/", "g">>

UrlClick == <<"h", "/", "c", "l", "i", "c", "k">>

UrlShoply == <<"h", "/", "s">>

UrlMock == <<"h", "/", "m">>

UrlShady == <<"h", "/", "x">>

UrlFree == <<"h", "/", "s", "c", "a", "m">>

Bottle == <<"b", "o", "t", "t", "l", "e">>

\* the offers S3 can return; scores are distinct, so each set has one
\* descending order
Catalog ==
    {[vendor |-> GigaDeal, title |-> Bottle, description |-> <<>>, keywords |-> <<>>,
      domain_name |-> <<>>, price_usd |-> 100, url |-> UrlGiga, score |-> 9],
     [vendor |-> Mockazon, title |-> <<"B", "l", "u", "e", " ", "b", "o", "t", "t", "l", "e">>,
      description |-> <<>>, keywords |-> <<>>, domain_name |-> <<>>, price_usd |-> 100,
      url |-> UrlClick, score |-> 8],
     [vendor |-> Shoply, title |-> Bottle, description |-> <<>>, keywords |-> <<>>,
      domain_name |-> <<>>, price_usd |-> 105, url |-> UrlShoply, score |-> 7],
     [vendor |-> Mockazon, title |-> Bottle, description |-> <<>>, keywords |-> <<>>,
      domain_name |-> <<"a", "m", "a", "z", "o", "n", ".", "c", "o", "m">>,
      price_usd |-> 120, url |-> UrlMock, score |-> 6],
     [vendor |-> <<"S", "h", "a", "d", "y", "S", "h", "o", "p">>,
      title |-> <<"f", "a", "k", "e", " ", "b", "o", "t", "t", "l", "e">>,
      description |-> <<>>, keywords |-> <<<<"d", "u", "p", "e">>>>,
      domain_name |-> <<"s", "h", "a", "d", "y", ".", "i", "o">>, price_usd |-> 90,
      url |-> UrlShady, score |-> 5],
     [vendor |-> MegaBuy, title |-> Bottle, description |-> <<>>, keywords |-> <<>>,
      domain_name |-> <<>>, price_usd |-> 0, url |-> UrlFree, score |-> 10]}

\* sorted(..., key=score, reverse=True)
RECURSIVE SortByScore(_)
SortByScore(S) ==
    IF S = {} THEN <<>>
    ELSE LET top == CHOOSE o \in S : \A q \in S : o.score >= q.score
         IN  <<top>> \o SortByScore(S \ {top})

OfferLists == {SortByScore(S) : S \in {T \in SUBSET Catalog : Cardinality(T) <= MaxOffers}}

PreferredUrls ==
    {<<>>, <<"H", "/", "C", "l", "i", "c", "k", "/">>, <<"h", "/", "s", "/", "/">>}

TopKOverrides == {NoneInt} \cup {SomeInt(k) : k \in (-1)..MaxTopK}

WindowOverrides == {NoneInt, SomeInt(-5), SomeInt(0)}

LatencyOverrides == {NoneInt, SomeInt(100)}

\* how long one candidate's trust evaluation can take, in ms
Durations == {0, 300}

Hypotheses ==
    {[brand |-> <<>>, color |-> <<>>],
     [brand |-> <<"N", "i", "k", "e">>, color |-> <<"b", "l", "u", "e">>]}

InitS4 ==
    /\ PayInit
    /\ impl \in {"graph", "coordinator"}
    /\ request \in [preferred_offer_url : PreferredUrls,
                    comp_top_k : TopKOverrides,
                    comp_price_window_pct : WindowOverrides,
                    latency_cap_ms : LatencyOverrides,
                    hypothesis : Hypotheses]
    /\ offers \in OfferLists
    /\ best_offer = NoneOffer
    /\ trust = NoTrust
    /\ events = <<>>
    /\ evals = <<>>
    /\ loc = NoLoc
    /\ pc = "s3"
    /\ ExtIdle

NextS4 ==
    \/ SelectBest
    \/ TrustNodeBegin
    \/ \E duration_ms \in Durations : CompensateStep(duration_ms)
    \/ TrustNodeReturn
    \/ \E raises \in BOOLEAN : SagaTrust(raises)
    \/ \E raises \in BOOLEAN : SagaCompensate(raises)

SpecS4 == InitS4 /\ [][NextS4]_vars

----------------------------------------------------------------------------
(* Checkout properties                                                     *)

Returned(c) == calls[c].status = "done" /\ calls[c].error = ""

SameCall(c, d) ==
    /\ calls[c].offer = calls[d].offer
    /\ calls[c].payment = calls[d].payment
    /\ calls[c].idem_key = calls[d].idem_key

\* the key a call presents: its idem_key, or the digest of its payload
PresentedKey(call) ==
    LET digits == digits_of(call.payment.card_number)
    IN  EffectiveKey(call.idem_key,
            idempotency_key(PayloadOf(call.offer, mask_card(digits),
                                      detect_card_type(digits))))

\* caller c's pending call runs in this step
Runs(c) == calls[c].status = "pending" /\ calls'[c].status = "done"

\* C1: any two pay calls with identical offer, payment input and idempotency
\* key that both return a Receipt return identical Receipts (all six fields).
C1_IdenticalReceipts ==
    \A c, d \in Callers :
        (Returned(c) /\ Returned(d) /\ SameCall(c, d))
            => calls[c].receipt = calls[d].receipt

\* a first call created the Receipt, a second identical one ran after it
C1_Witness ==
    /\ Returned("c1") /\ Returned("c2") /\ SameCall("c1", "c2")
    /\ calls["c1"].fresh /\ ~calls["c2"].fresh /\ calls["c2"].ranWith = {}

\* C2 as stated: once a Receipt is stored under key k, every later pay call
\* that presents k returns that stored Receipt.
C2_Original ==
    [][\A c \in Callers :
          (Runs(c) /\ PresentedKey(calls[c]) \in DOMAIN RECEIPT_STORE)
              => /\ calls'[c].error = ""
                 /\ calls'[c].receipt = RECEIPT_STORE[PresentedKey(calls[c])]]_vars

\* C2 amended: once a Receipt is stored under key k, every later pay call
\* that presents k and passes the admission checks returns that stored
\* Receipt, whatever its offer and whatever calls came in between.
C2_StoredReceiptReturned ==
    [][\A c \in Callers :
          (Runs(c) /\ PresentedKey(calls[c]) \in DOMAIN RECEIPT_STORE
                   /\ calls'[c].error = "")
              => calls'[c].receipt = RECEIPT_STORE[PresentedKey(calls[c])]]_vars

\* a call answered from the store although its own offer has another price
C2_Witness ==
    \E c \in Callers :
        /\ Returned(c) /\ ~calls[c].fresh
        /\ calls[c].receipt.amount_usd # calls[c].offer.price_usd
        /\ RECEIPT_STORE[PresentedKey(calls[c])] = calls[c].receipt

\* C3: two pay calls with the same key and the same valid inputs that were
\* pending together return the same Receipt, only the one that ran first can
\* have created it, and the store holds that Receipt under the key.
C3_ConcurrentSingleReceipt ==
    \A c, d \in Callers :
        (c # d /\ Returned(c) /\ Returned(d) /\ SameCall(c, d)
               /\ d \in calls[c].ranWith)
            => /\ calls[c].receipt = calls[d].receipt
               /\ ~calls[d].fresh
               /\ PresentedKey(calls[c]) \in DOMAIN RECEIPT_STORE
               /\ RECEIPT_STORE[PresentedKey(calls[c])] = calls[c].receipt

\* both calls were pending together on a new key; exactly one created it
C3_Witness ==
    /\ Returned("c1") /\ Returned("c2") /\ SameCall("c1", "c2")
    /\ "c2" \in calls["c1"].ranWith
    /\ calls["c1"].fresh /\ ~calls["c2"].fresh
    /\ Cardinality(DOMAIN RECEIPT_STORE) = 1

\* C4: every store entry carries the key it is stored under, no pay call
\* overwrites or removes an entry, and a call on a key already stored adds
\* no entry (two runs with the same key leave one entry).
C4_StoreEntriesStable ==
    [][/\ \A k \in DOMAIN RECEIPT_STORE :
            k \in DOMAIN RECEIPT_STORE' /\ RECEIPT_STORE'[k] = RECEIPT_STORE[k]
       /\ \A k \in DOMAIN RECEIPT_STORE' : RECEIPT_STORE'[k].idempotency_key = k
       /\ \A c \in Callers :
            (Runs(c) /\ PresentedKey(calls[c]) \in DOMAIN RECEIPT_STORE)
                => DOMAIN RECEIPT_STORE' = DOMAIN RECEIPT_STORE]_vars

\* two returned runs with the same key and different offers, one entry
C4_Witness ==
    /\ Returned("c1") /\ Returned("c2")
    /\ calls["c1"].idem_key = KeyAbc /\ calls["c2"].idem_key = KeyAbc
    /\ calls["c1"].offer # calls["c2"].offer
    /\ DOMAIN RECEIPT_STORE = {KeyAbc}

\* C5 as stated: every Receipt returned by a pay call has amount_usd equal to
\* the price_usd of the offer passed to that call.
C5_Original ==
    \A c \in Callers :
        Returned(c) => calls[c].receipt.amount_usd = calls[c].offer.price_usd

\* C5 amended: every Receipt a pay call creates (its key was not yet stored)
\* has amount_usd equal to the price_usd of the offer passed to that call,
\* whatever amount the client supplied.
C5_CreatedAmountIsOfferPrice ==
    \A c \in Callers :
        (Returned(c) /\ calls[c].fresh)
            => calls[c].receipt.amount_usd = calls[c].offer.price_usd

\* a Receipt created for a payment whose client amount differs from the price
C5_Witness ==
    \E c \in Callers :
        /\ Returned(c) /\ calls[c].fresh
        /\ calls[c].payment.amount_usd # calls[c].offer.price_usd

----------------------------------------------------------------------------
(* S4 properties                                                           *)

\* candidate price <= baseline * (1 + window_pct / 100), in integers
WithinWindow(baseline, candidate_price, window_pct) ==
    100 * candidate_price <= baseline * (100 + window_pct)

\* the run's trust_node changed the best offer
Switched == loc.updated_best # NoneOffer /\ loc.updated_best # best_offer

\* the risk S4 holds for the original best offer when it decides to compensate
OriginalRisk == IF impl = "graph" THEN loc.trust.risk ELSE assess(evals[1]).risk

Max0(n) == IF n > 0 THEN n ELSE 0

\* C6: after S4 completes with a best offer, offers[0] == best_offer.
C6_BestOfferFirst ==
    (pc = "done" /\ best_offer # NoneOffer) => offers[1] = best_offer

\* C7: each compensation decision switches exactly when the candidate's risk
\* band is strictly lower than the current one in the order low < medium <
\* high and the price check passed (trust_node), or exactly when it is
\* strictly lower (run_saga, which has no price window).
C7_SwitchIffSaferAndInWindow ==
    [][/\ (pc = "s4_loop" /\ Len(evals') = Len(evals) + 1)
            => LET candidate == offers[loc.i]
               IN  events'[Len(events')].switched <=>
                       /\ RiskRank[assess(candidate).risk] < RiskRank[loc.trust.risk]
                       /\ price_ok(loc.baseline, candidate.price_usd,
                                   loc.price_window_pct)
       /\ (pc = "saga_comp" /\ Len(evals') = Len(evals) + 1)
            => ((best_offer' = offers[2] /\ best_offer # offers[2]) <=>
                   RiskRank[assess(offers[2]).risk] < RiskRank[trust.risk])]_vars

\* C8: after S4 the final assessment's risk band is not higher than the band
\* held for the original best offer.
C8_CompensationNeverRiskier ==
    (pc = "done" /\ trust # NoTrust)
        => RiskRank[trust.risk] <= RiskRank[OriginalRisk]

\* C9 as stated: one execution of trust_node makes at most 1 + K trust
\* evaluations, for any K.
C9_Original ==
    impl = "graph" => Len(evals) <= 1 + comp_K(request)

\* C9 amended: one execution of trust_node makes at most 1 + max(K, 0) trust
\* evaluations.
C9_EvaluationsBounded ==
    impl = "graph" => Len(evals) <= 1 + Max0(comp_K(request))

\* the loop stopped on the attempts guard with candidates left over
C9_Witness ==
    /\ impl = "graph" /\ pc = "done"
    /\ comp_K(request) = 2
    /\ Len(evals) = 3
    /\ Len(offers) = 4
    /\ best_offer = evals[1]

----------------------------------------------------------------------------
(* Admission checks of pay on their own: one call, drawn from inputs that  *)
(* violate any combination of checks, run against counters a card can have *)
(* accumulated                                                             *)

CardMaster ==
    <<"5", "5", "5", "5", "5", "5", "5", "5", "5", "5", "5", "5", "4", "4", "4", "4">>

CardShort == <<"1", "2", "3">>

\* a visa prefix with 13 digits
CardVisa13 ==
    <<"4", "2", "2", "2", "2", "2", "2", "2", "2", "2", "2", "2", "2">>

\* 16 visa digits with a wrong check digit
CardVisaBadLuhn ==
    <<"4", "2", "4", "2", "4", "2", "4", "2", "4", "2", "4", "2", "4", "2", "4", "1">>

ExpiryMalformed == <<"1", "3", "/", "2", "9">>

ExpiryPast == <<"0", "1", "/", "2", "4">>

AdmitOffers ==
    [vendor : {"Mockazon", "FraudCo"}, title : {"Sample"}, price_usd : {0, 25, 6000}]

AdmitPayments ==
    [card_number : {CardVisa, CardMaster, CardShort, CardVisa13, CardVisaBadLuhn},
     expiry_mm_yy : {ExpiryGood, ExpiryMalformed, ExpiryPast},
     cvv : {CvvGood, CvvBad},
     amount_usd : {25}]

\* failed attempts a card can have behind it: none, some, the last tolerated
\* count, and the first flagged one
AdmitCounts == {0, 3, 5, 6}

InitAdmit ==
    /\ RECEIPT_STORE = << >>
    /\ now = <<2026, 11>>
    /\ \E offer \in AdmitOffers, payment \in AdmitPayments,
          n \in AdmitCounts, m \in AdmitCounts :
          /\ calls = [c \in Callers |->
                         IF c = "c1"
                         THEN [NoCall EXCEPT !.status = "pending", !.offer = offer,
                                             !.payment = payment]
                         ELSE NoCall]
          /\ CARD_ACTIVITY \in
                {<< >>,
                 ActivityPut(ActivityPut(<< >>, CardMaster, m),
                             digits_of(payment.card_number), n)}
    /\ S4Idle
    /\ ExtIdle

NextAdmit == \E c \in Callers : Pay(c)

SpecAdmit == InitAdmit /\ [][NextAdmit]_vars

----------------------------------------------------------------------------
(* Admission properties                                                    *)

\* 1-based position of the first check the call violates in the order
\* amount > 0, amount <= max, blacklist, digit count, brand length, velocity
\* gate, expiry format, expiry date, Luhn, CVV; 0 when it violates none
FirstViolated(call, activity, clock) ==
    LET digits   == digits_of(call.payment.card_number)
        violated ==
            <<call.offer.price_usd <= 0,
              call.offer.price_usd > MAX_AMOUNT,
              call.offer.vendor \in BLACKLISTED_VENDORS,
              Len(digits) < 13,
              validate_card_length(digits, detect_card_type(digits)) # "",
              ActivityGet(activity, digits) > VelocityLimit,
              ~validate_expiry(call.payment.expiry_mm_yy),
              ~expiry_is_future(call.payment.expiry_mm_yy, clock),
              ~luhn_check(digits),
              ~validate_cvv(call.payment.cvv)>>
    IN  IF \E i \in 1..10 : violated[i]
        THEN CHOOSE i \in 1..10 : violated[i] /\ \A j \in 1..(i - 1) : ~violated[j]
        ELSE 0

\* the error each check raises, in the same order
CheckError ==
    <<"Invalid offer amount", "Amount exceeds checkout limit", "Vendor not allowed",
      "Card number too short", "Invalid card",
      "Card flagged for excessive failed attempts",
      "Invalid expiry", "Card expired", "Invalid card", "Invalid CVV">>

CountOf(c) == ActivityGet(CARD_ACTIVITY, digits_of(calls[c].payment.card_number))

\* C14: a call that reaches the velocity gate with a counter above 5 is
\* aborted there, whatever its expiry, Luhn validity and CVV; no call of a
\* card with a counter above 5 gets past the gate (it raises, and never with
\* the error of a later check); a call of a card with a counter of at most 5
\* is never aborted by the gate.
C14_VelocityGate ==
    [][\A c \in Callers : Runs(c) =>
          LET first == FirstViolated(calls[c], CARD_ACTIVITY, now)
          IN  /\ (CountOf(c) > 5 /\ first >= 6)
                    => calls'[c].error = "Card flagged for excessive failed attempts"
              /\ CountOf(c) > 5
                    => /\ calls'[c].error \notin {"", "Invalid expiry", "Card expired",
                                                  "Invalid CVV"}
                       /\ UNCHANGED <<RECEIPT_STORE, CARD_ACTIVITY>>
              /\ CountOf(c) <= 5
                    => calls'[c].error # "Card flagged for excessive failed attempts"]_vars

\* a flagged card was stopped at the gate although its expiry, Luhn digit and
\* CVV are all good
C14_Witness ==
    \E c \in Callers :
        /\ calls[c].status = "done"
        /\ calls[c].error = "Card flagged for excessive failed attempts"
        /\ CountOf(c) = 6
        /\ calls[c].payment.card_number = CardVisa
        /\ calls[c].payment.expiry_mm_yy = ExpiryGood
        /\ calls[c].payment.cvv = CvvGood

\* C15: a call changes its card's counter by +1 when it fails the expiry
\* format, expiry date, Luhn or CVV check, sets it to 0 when it passes every
\* check, leaves all counters as they are when it fails an earlier check,
\* and never changes the counter of another card.
C15_CounterEffects ==
    [][\A c \in Callers : Runs(c) =>
          LET first == FirstViolated(calls[c], CARD_ACTIVITY, now)
              card  == digits_of(calls[c].payment.card_number)
          IN  /\ first \in 7..10
                    => ActivityGet(CARD_ACTIVITY', card) = CountOf(c) + 1
              /\ first = 0 => ActivityGet(CARD_ACTIVITY', card) = 0
              /\ first \in 1..6 => CARD_ACTIVITY' = CARD_ACTIVITY
              /\ \A other \in (DOMAIN CARD_ACTIVITY \cup DOMAIN CARD_ACTIVITY') \ {card} :
                    ActivityGet(CARD_ACTIVITY', other) = ActivityGet(CARD_ACTIVITY, other)]_vars

\* a CVV failure took a card from 3 to 4 failed attempts next to another
\* card's untouched counter
C15_Witness ==
    \E c \in Callers :
        /\ calls[c].status = "done"
        /\ calls[c].error = "Invalid CVV"
        /\ calls[c].payment.card_number = CardVisa
        /\ ActivityGet(CARD_ACTIVITY, CardVisa) = 4
        /\ ActivityGet(CARD_ACTIVITY, CardMaster) = 5

\* C16: a call that violates one or more admission checks raises the error
\* of the first violated check in the order amount > 0, amount <= max,
\* blacklist, digit count, brand length, velocity gate, expiry format, expiry
\* date, Luhn, CVV; a call that violates none raises nothing.
C16_FirstViolatedCheckRaises ==
    [][\A c \in Callers : Runs(c) =>
          LET first == FirstViolated(calls[c], CARD_ACTIVITY, now)
          IN  calls'[c].error = IF first = 0 THEN "" ELSE CheckError[first]]_vars

\* a blacklisted vendor with a zero amount, a short card, a malformed expiry
\* and a bad CVV was refused for its amount
C16_Witness ==
    \E c \in Callers :
        /\ calls[c].status = "done"
        /\ calls[c].error = "Invalid offer amount"
        /\ calls[c].offer.vendor = "FraudCo"
        /\ calls[c].payment.card_number = CardShort
        /\ calls[c].payment.expiry_mm_yy = ExpiryMalformed
        /\ calls[c].payment.cvv = CvvBad

----------------------------------------------------------------------------
(* A TokenBudgeter on its own: any sequence of charges                     *)

MaxCap == 2

MaxTokens == 2

MaxCharges == 2

\* caps a budgets map can carry; the per-request map is not validated
TokenCaps == (-1)..MaxCap

TokenRoles == {"prompt", "completion"}

InitTokens ==
    /\ PayInit
    /\ S4Idle
    /\ \E budgets \in [TokenStages -> TokenCaps], policy \in Policies :
          budgeter = [st \in Paths |->
                         IF st = "strict" THEN NewBudgeter(budgets, policy)
                         ELSE NoBudgeter]
    /\ token_log = <<>>
    /\ sourcing = NoSourcing
    /\ run = NoRun
    /\ fn = NoFn

\* budgeter.charge(state, provider, model, role, n_tokens)
Charge(id, state, role, n_tokens) ==
    /\ budgeter[id].exists
    /\ Len(token_log) < MaxCharges
    /\ budgeter' = [budgeter EXCEPT ![id] = charge(@, state, n_tokens)]
    /\ token_log' = Append(token_log,
                           TokenEventOf(budgeter[id], id, state, role, n_tokens))
    /\ UNCHANGED <<sourcing, run, fn>>
    /\ UNCHANGED payVars
    /\ UNCHANGED s4Vars

NextTokens ==
    \E id \in Strategies, state \in TokenStages, role \in TokenRoles,
       n_tokens \in 0..MaxTokens :
        Charge(id, state, role, n_tokens)

SpecTokens == InitTokens /\ [][NextTokens]_vars

----------------------------------------------------------------------------
(* Token budgeter properties                                               *)

Budgeters == {id \in Strategies : budgeter[id].exists}

\* a charge step moved used[st] of budgeter id by min(n, cap - used[st]) when
\* it charged that budgeter and stage, and by nothing otherwise
ChargedStage(id, st) ==
    LET ev == token_log'[Len(token_log')]
        b  == budgeter[id]
    IN  budgeter'[id].used[st] - b.used[st] =
            IF ev.run_id = id /\ ev.state = st
            THEN Min(ev.n_tokens, b.budgets[st] - b.used[st])
            ELSE 0

WithinCap(b, st) == b.used[st] <= b.budgets[st]

\* C11 as stated: on every TokenBudgeter used[stage] never exceeds
\* budgets[stage].cap, and each charge of n tokens increases used[stage] by
\* min(n, cap - used[stage]).
C11_Original ==
    [][\A id \in Budgeters, st \in TokenStages :
          /\ WithinCap(budgeter[id], st)
          /\ WithinCap(budgeter'[id], st)
          /\ Len(token_log') = Len(token_log) + 1 => ChargedStage(id, st)]_vars

\* C11 amended: for a stage whose cap is not negative, used[stage] never
\* exceeds the cap and each charge of n tokens increases used[stage] by
\* min(n, cap - used[stage]).
C11_UsedWithinCap ==
    [][\A id \in Budgeters, st \in TokenStages :
          budgeter[id].budgets[st] >= 0 =>
              /\ WithinCap(budgeter[id], st)
              /\ WithinCap(budgeter'[id], st)
              /\ Len(token_log') = Len(token_log) + 1 => ChargedStage(id, st)]_vars

\* a charge that did not fit was cut to what was left of the cap
C11_Witness ==
    \E id \in Budgeters :
        /\ budgeter[id].budgets["S3"] = 2
        /\ budgeter[id].used["S3"] = 2
        /\ Len(token_log) = 2
        /\ token_log[1].n_tokens = 1
        /\ token_log[2].n_tokens = 2
        /\ token_log[2].over_budget

----------------------------------------------------------------------------
(* S3: the sourcing strategies with the optional rerank, and the merge     *)

\* what the awaited provider call can do: raise, or return ranked_indices
ProviderOutcomes ==
    {[raises |-> TRUE, ranked_indices |-> <<>>],
     [raises |-> FALSE, ranked_indices |-> <<1, 0>>],
     [raises |-> FALSE, ranked_indices |-> <<2, 2, 7, 0>>]}

\* the token settings a call of _score_candidates receives: the run's for
\* the two strategies, none for the legacy call
token_args(st) == IF st = "legacy" THEN NoSourcing ELSE sourcing

\* _score_candidates up to its first await: the shortlist, and with the
\* rerank enabled the TokenBudgeter, the enforce-before-call decision and
\* the prompt charge of rerank_offers_with_llm
ScoreCandidates(st, shortlisted, prompt_tokens) ==
    /\ pc \in {"s3_strategies", "s3_legacy"}
    /\ sourcing.strategy[st].pc = "start"
    /\ LET b0    == NewBudgeter(budgets_in_force(token_args(st)),
                                policy_in_force(token_args(st)))
           act   == enforce_before_call(b0, "S3", prompt_tokens)
           strat == [sourcing.strategy[st] EXCEPT !.shortlisted = shortlisted]
           set(r) == sourcing' = [sourcing EXCEPT !.strategy[st] = r]
       IN  IF ~sourcing.langchain \/ shortlisted = <<>>
           THEN /\ set([strat EXCEPT !.pc = "done", !.result = shortlisted])
                /\ UNCHANGED <<budgeter, token_log>>
           ELSE IF Len(shortlisted) <= 1
           THEN /\ set([strat EXCEPT !.pc = "done", !.result = shortlisted])
                /\ budgeter' = [budgeter EXCEPT ![st] = b0]
                /\ UNCHANGED token_log
           ELSE IF ~sourcing.import_ok
           THEN \* the import inside the try raises: the plain call is made
                /\ set([strat EXCEPT !.pc = "plain_call", !.provider_calls = 1])
                /\ budgeter' = [budgeter EXCEPT ![st] = b0]
                /\ UNCHANGED token_log
           ELSE IF act = "block"
           THEN \* RuntimeError raised inside the try, caught by its except
                /\ set([strat EXCEPT !.pc = "plain_call", !.act = act,
                                     !.provider_calls = 1])
                /\ budgeter' = [budgeter EXCEPT ![st] = b0]
                /\ UNCHANGED token_log
           ELSE IF act = "fallback"
           THEN /\ set([strat EXCEPT !.pc = "done", !.act = act,
                                     !.result = shortlisted])
                /\ budgeter' = [budgeter EXCEPT ![st] = charge(b0, "S3", 0)]
                /\ token_log' = Append(token_log,
                                       TokenEventOf(b0, st, "S3", "prompt", 0))
           ELSE /\ set([strat EXCEPT !.pc = "budgeted_call", !.act = act,
                                     !.provider_calls = 1])
                /\ budgeter' = [budgeter EXCEPT ![st] = charge(b0, "S3", prompt_tokens)]
                /\ token_log' = Append(token_log,
                                       TokenEventOf(b0, st, "S3", "prompt", prompt_tokens))
    /\ UNCHANGED <<run, fn>>
    /\ UNCHANGED payVars
    /\ UNCHANGED s4Vars

\* the awaited chain.ainvoke of a strategy finishes: the budgeted call is
\* charged its completion and applied, or on an error retried as a plain
\* call; the plain call is applied, or on an error _score_candidates keeps
\* the shortlist
ProviderReturns(st, outcome, completion_tokens) ==
    /\ pc \in {"s3_strategies", "s3_legacy"}
    /\ sourcing.strategy[st].pc \in {"budgeted_call", "plain_call"}
    /\ LET strat  == sourcing.strategy[st]
           set(r) == sourcing' = [sourcing EXCEPT !.strategy[st] = r]
       IN  IF strat.pc = "budgeted_call" /\ outcome.raises
           THEN /\ set([strat EXCEPT !.pc = "plain_call", !.provider_calls = @ + 1])
                /\ UNCHANGED <<budgeter, token_log>>
           ELSE IF strat.pc = "budgeted_call"
           THEN /\ set([strat EXCEPT !.pc = "done",
                           !.result = apply_ranking(strat.shortlisted,
                                                    outcome.ranked_indices)])
                /\ budgeter' = [budgeter EXCEPT
                                   ![st] = charge(@, "S3", completion_tokens)]
                /\ token_log' = Append(token_log,
                       TokenEventOf(budgeter[st], st, "S3", "completion",
                                    completion_tokens))
           ELSE /\ set([strat EXCEPT !.pc = "done",
                           !.result = IF outcome.raises THEN strat.shortlisted
                                      ELSE apply_ranking(strat.shortlisted,
                                                         outcome.ranked_indices)])
                /\ UNCHANGED <<budgeter, token_log>>
    /\ UNCHANGED <<run, fn>>
    /\ UNCHANGED payVars
    /\ UNCHANGED s4Vars

\* sourcing_node after asyncio.gather: merge, deduplicate, sort, pick the
\* best offer, append S3_BRANCH and S3_SOURCING; an empty list is returned
\* like any other
SourcingMerge ==
    /\ pc = "s3_strategies"
    /\ impl = "graph"
    /\ \A st \in Strategies : sourcing.strategy[st].pc = "done"
    /\ LET merged == merge_offers(sourcing.strategy["strict"].result,
                                  sourcing.strategy["fuzzy"].result)
           best   == pick_best_offer(merged, request.preferred_offer_url)
       IN  /\ offers' = merged
           /\ best_offer' = best
           /\ events' = events \o
                  <<[Event("S3_BRANCH") EXCEPT
                        !.strict_count = Len(sourcing.strategy["strict"].result),
                        !.fuzzy_count = Len(sourcing.strategy["fuzzy"].result)],
                    [Event("S3_SOURCING") EXCEPT !.vendor = best.vendor]>>
    /\ pc' = "s4"
    /\ UNCHANGED <<impl, request, trust, evals, loc>>
    /\ UNCHANGED payVars
    /\ UNCHANGED extVars

\* offers_for_intent_strict, _fuzzy or the legacy offers_for_intent raises
\* before its first await (the catalog cannot be read, an item lacks a
\* field); an exception of the legacy call leaves sourcing_node
StrategyRaises(st) ==
    /\ pc \in {"s3_strategies", "s3_legacy"}
    /\ impl = "graph"
    /\ sourcing.strategy[st].pc = "start"
    /\ sourcing' = [sourcing EXCEPT !.strategy[st].pc = "raised"]
    /\ IF st = "legacy"
       THEN /\ run' = [run EXCEPT !.error = "S3 failed"]
            /\ pc' = "failed"
       ELSE UNCHANGED <<run, pc>>
    /\ UNCHANGED <<budgeter, token_log, fn>>
    /\ UNCHANGED <<impl, request, offers, best_offer, trust, events, evals, loc>>
    /\ UNCHANGED payVars

\* asyncio.gather hands the first exception to sourcing_node once both
\* tasks have run their first step; the other task is not cancelled. The
\* except branch starts the legacy offers_for_intent.
GatherRaises ==
    /\ pc = "s3_strategies"
    /\ impl = "graph"
    /\ \E st \in Strategies : sourcing.strategy[st].pc = "raised"
    /\ \A st \in Strategies : sourcing.strategy[st].pc # "start"
    /\ sourcing' = [sourcing EXCEPT !.strategy["legacy"].pc = "start"]
    /\ pc' = "s3_legacy"
    /\ UNCHANGED <<budgeter, token_log, run, fn>>
    /\ UNCHANGED <<impl, request, offers, best_offer, trust, events, evals, loc>>
    /\ UNCHANGED payVars

LegacyMerge_KeepStrict ==
    /\ pc = "s3_legacy"
    /\ sourcing.strategy["legacy"].pc = "done"
    /\ LET legacy == sourcing.strategy["legacy"].result
           strict == sourcing.strategy["strict"].result
           merged == merge_offers(strict, legacy)
           best   == pick_best_offer(merged, request.preferred_offer_url)
       IN  /\ offers' = merged
           /\ best_offer' = best
           /\ events' = events \o
                  <<[Event("S3_BRANCH") EXCEPT !.strict_count = Len(strict),
                                               !.fuzzy_count = Len(legacy)],
                    [Event("S3_SOURCING") EXCEPT !.vendor = best.vendor]>>
    /\ pc' = "s4"
    /\ UNCHANGED <<impl, request, trust, evals, loc>>
    /\ UNCHANGED payVars
    /\ UNCHANGED extVars

\* sourcing_node after its except branch: strict_offers = [], fuzzy_offers
\* = the legacy result; then the merge, the pick and the two events
LegacyMerge ==
    /\ pc = "s3_legacy"
    /\ sourcing.strategy["legacy"].pc = "done"
    /\ LET legacy == sourcing.strategy["legacy"].result
           merged == merge_offers(<<>>, legacy)
           best   == pick_best_offer(merged, request.preferred_offer_url)
       IN  /\ offers' = merged
           /\ best_offer' = best
           /\ events' = events \o
                  <<[Event("S3_BRANCH") EXCEPT !.strict_count = 0,
                                               !.fuzzy_count = Len(legacy)],
                    [Event("S3_SOURCING") EXCEPT !.vendor = best.vendor]>>
    /\ pc' = "s4"
    /\ UNCHANGED <<impl, request, trust, evals, loc>>
    /\ UNCHANGED payVars
    /\ UNCHANGED extVars

\* run_saga, S3: call_sourcing (offers_for_intent, the fuzzy strategy alone)
\* returns its offers or raises; an error or an empty list fails the run
SagaSourcing(raises) ==
    /\ pc = "s3_strategies"
    /\ impl = "coordinator"
    /\ sourcing.strategy["fuzzy"].pc = "done"
    /\ LET found == sourcing.strategy["fuzzy"].result
           best  == pick_best_offer(found, request.preferred_offer_url)
       IN  IF raises \/ found = <<>>
           THEN /\ events' = Append(events, [Event("S3_SOURCING") EXCEPT
                                !.ok = FALSE,
                                !.reason = IF raises THEN "error" ELSE "no offers"])
                /\ run' = [run EXCEPT !.error = "S3 failed"]
                /\ pc' = "failed"
                /\ UNCHANGED <<offers, best_offer>>
           ELSE /\ offers' = found
                /\ best_offer' = best
                /\ events' = Append(events, [Event("S3_SOURCING") EXCEPT
                                                !.vendor = best.vendor])
                /\ pc' = "s4"
                /\ UNCHANGED run
    /\ UNCHANGED <<impl, request, trust, evals, loc>>
    /\ UNCHANGED payVars
    /\ UNCHANGED <<budgeter, token_log, sourcing, fn>>

\* the catalog offer of a URL
OfferAt(url) == CHOOSE o \in Catalog : o.url = url

\* top_k of sourcing_node
TOP_K == 5

\* the scored shortlists a strategy can come up with (offers[:top_k]); a
\* strategy scores an item against its own candidates, so one URL can carry
\* two scores, and the catalog may spell one URL in two ways
Shortlists ==
    {<<>>,
     <<OfferAt(UrlFree)>>,
     <<[OfferAt(UrlShoply) EXCEPT !.score = 12, !.url = <<"h", "/", "S">>],
       OfferAt(UrlGiga), OfferAt(UrlMock)>>,
     SortByScore(Catalog \ {OfferAt(UrlFree)})}

\* per-request S3 caps (None: the configured default)
S3Caps == {NoneInt} \cup {SomeInt(c) : c \in 1..MaxCap}

PolicyOverrides == {""} \cup Policies

StartStrategies(runner) ==
    [st \in Paths |->
        IF st # "legacy" /\ (runner = "graph" \/ st = "fuzzy")
        THEN [NoStrategy EXCEPT !.pc = "start"] ELSE NoStrategy]

InitS3 ==
    /\ PayInit
    /\ impl \in {"graph", "coordinator"}
    /\ request = NoRequest
    /\ offers = <<>>
    /\ best_offer = NoneOffer
    /\ trust = NoTrust
    /\ events = <<>>
    /\ evals = <<>>
    /\ loc = NoLoc
    /\ pc = "s3_strategies"
    /\ budgeter = [st \in Paths |-> NoBudgeter]
    /\ token_log = <<>>
    /\ \E langchain \in BOOLEAN, import_ok \in BOOLEAN, cap \in S3Caps,
          policy \in PolicyOverrides :
          \* without the rerank the token settings are never read
          /\ ~langchain => (import_ok /\ cap = NoneInt /\ policy = "")
          /\ sourcing = [langchain |-> langchain, import_ok |-> import_ok,
                      token_budgets |-> cap, token_policy |-> policy,
                      strategy |-> StartStrategies(impl)]
    /\ run = NoRun
    /\ fn = NoFn

NextS3 ==
    \/ \E st \in Paths, shortlisted \in Shortlists, n \in 1..MaxTokens :
          ScoreCandidates(st, shortlisted, n)
    \/ \E st \in Paths, outcome \in ProviderOutcomes, n \in {MaxTokens} :
          ProviderReturns(st, outcome, n)
    \/ \E st \in Paths : StrategyRaises(st)
    \/ GatherRaises
    \/ SourcingMerge
    \/ LegacyMerge
    \/ \E raises \in BOOLEAN : SagaSourcing(raises)

SpecS3 == InitS3 /\ [][NextS3]_vars

----------------------------------------------------------------------------
(* S3 properties                                                           *)

\* the S3 cap of the run
S3Cap == budgets_in_force(sourcing)["S3"]

\* tokens charged to S3 in the run, over every budgeter the run made
S3Charged ==
    budgeter["strict"].used["S3"] + budgeter["fuzzy"].used["S3"]
        + budgeter["legacy"].used["S3"]

\* C12: within one run the tokens charged to S3 by the strict and the fuzzy
\* strategy together never exceed the S3 cap.
C12_S3ChargesWithinCap == S3Charged <= S3Cap

\* C13: when the policy is block and enforce_before_call does not return ok,
\* the rerank provider is not invoked for that strategy and the strategy
\* returns its shortlist in the deterministic order.
C13_BlockSkipsRerank ==
    \A st \in Strategies :
        sourcing.strategy[st].act = "block"
            => /\ sourcing.strategy[st].provider_calls = 0
               /\ sourcing.strategy[st].pc = "done"
                     => sourcing.strategy[st].result = sourcing.strategy[st].shortlisted

----------------------------------------------------------------------------
(* A whole run: S1 and S2, S3 and S4 as above, then S5 or the end          *)

\* the str of a sequence of characters, as pay receives vendor and title
RECURSIVE Spell(_)
Spell(chars) == IF chars = <<>> THEN "" ELSE chars[1] \o Spell(Tail(chars))

\* the offer as the checkout agent sees it
PayOfferOf(offer) ==
    [vendor |-> Spell(offer.vendor), title |-> Spell(offer.title),
     price_usd |-> offer.price_usd]

\* variant: the graph always has the s5_checkout node
has_checkout_Always(include_checkout) == TRUE

\* build_graph: s5_checkout is a node of the graph iff include_checkout
has_checkout(include_checkout) == include_checkout

\* capture_node: intake_image raises (the graph run ends with the
\* exception) or S1_CAPTURE is appended
CaptureNode(raises) ==
    /\ pc = "s1"
    /\ impl = "graph"
    /\ IF raises
       THEN /\ run' = [run EXCEPT !.error = "S1 failed"]
            /\ pc' = "failed"
            /\ UNCHANGED events
       ELSE /\ events' = Append(events, Event("S1_CAPTURE"))
            /\ pc' = "s2"
            /\ UNCHANGED run
    /\ UNCHANGED <<impl, request, offers, best_offer, trust, evals, loc>>
    /\ UNCHANGED payVars
    /\ UNCHANGED <<budgeter, token_log, sourcing, fn>>

\* variant: intent_node returns a list holding its own event only
IntentNode_FreshEvents(raises) ==
    /\ pc = "s2"
    /\ impl = "graph"
    /\ IF raises
       THEN /\ run' = [run EXCEPT !.error = "S2 failed"]
            /\ pc' = "failed"
            /\ UNCHANGED events
       ELSE /\ events' = <<Event("S2_CONFIRM")>>
            /\ pc' = "s3_strategies"
            /\ UNCHANGED run
    /\ UNCHANGED <<impl, request, offers, best_offer, trust, evals, loc>>
    /\ UNCHANGED payVars
    /\ UNCHANGED <<budgeter, token_log, sourcing, fn>>

\* intent_node: confirm_intent raises, or S2_CONFIRM is appended to a copy
\* of state.events
IntentNode(raises) ==
    /\ pc = "s2"
    /\ impl = "graph"
    /\ IF raises
       THEN /\ run' = [run EXCEPT !.error = "S2 failed"]
            /\ pc' = "failed"
            /\ UNCHANGED events
       ELSE /\ events' = Append(events, Event("S2_CONFIRM"))
            /\ pc' = "s3_strategies"
            /\ UNCHANGED run
    /\ UNCHANGED <<impl, request, offers, best_offer, trust, evals, loc>>
    /\ UNCHANGED payVars
    /\ UNCHANGED <<budgeter, token_log, sourcing, fn>>

\* run_saga up to the end of S1: the missing_payment guard, then call_vision
SagaCapture(raises) ==
    /\ pc = "s1"
    /\ impl = "coordinator"
    /\ IF run.include_checkout /\ ~run.payment.some
       THEN /\ run' = [run EXCEPT !.error = "missing_payment"]
            /\ pc' = "failed"
            /\ UNCHANGED events
       ELSE IF raises
       THEN /\ events' = Append(events, [Event("S1_CAPTURE") EXCEPT
                                            !.ok = FALSE, !.reason = "error"])
            /\ run' = [run EXCEPT !.error = "S1 failed"]
            /\ pc' = "failed"
       ELSE /\ events' = Append(events, Event("S1_CAPTURE"))
            /\ pc' = "s2"
            /\ UNCHANGED run
    /\ UNCHANGED <<impl, request, offers, best_offer, trust, evals, loc>>
    /\ UNCHANGED payVars
    /\ UNCHANGED <<budgeter, token_log, sourcing, fn>>

\* run_saga, S2: call_intent_confirm
SagaConfirm(raises) ==
    /\ pc = "s2"
    /\ impl = "coordinator"
    /\ IF raises
       THEN /\ events' = Append(events, [Event("S2_CONFIRM") EXCEPT
                                            !.ok = FALSE, !.reason = "error"])
            /\ run' = [run EXCEPT !.error = "S2 failed"]
            /\ pc' = "failed"
       ELSE /\ events' = Append(events, Event("S2_CONFIRM"))
            /\ pc' = "s3_strategies"
            /\ UNCHANGED run
    /\ UNCHANGED <<impl, request, offers, best_offer, trust, evals, loc>>
    /\ UNCHANGED payVars
    /\ UNCHANGED <<budgeter, token_log, sourcing, fn>>

\* variant: checkout_node only asks for a best offer
checkout_ready_OfferOnly(best, payment) == best # NoneOffer

\* the precondition of checkout_node: "not best_offer or payment is None"
\* is the soft failure
checkout_ready(best, payment) == best # NoneOffer /\ payment.some

\* checkout_node: the soft failure, or pay with the amount of the best
\* offer; an error of pay ends the graph run with the exception
CheckoutNode ==
    /\ pc = "done"
    /\ impl = "graph"
    /\ has_checkout(run.include_checkout)
    /\ IF ~checkout_ready(best_offer, run.payment)
       THEN /\ events' = Append(events, [Event("S5_CHECKOUT") EXCEPT
                              !.ok = FALSE, !.reason = "missing_payment_or_offer"])
            /\ pc' = "end"
            /\ UNCHANGED <<run, RECEIPT_STORE, CARD_ACTIVITY>>
       ELSE LET payment_copy == [run.payment.value EXCEPT
                                    !.amount_usd = best_offer.price_usd]
                r == pay(PayOfferOf(best_offer), payment_copy,
                         run.idempotency_key, RECEIPT_STORE, CARD_ACTIVITY, now)
            IN  /\ RECEIPT_STORE' = r.store
                /\ CARD_ACTIVITY' = r.activity
                /\ IF r.error # ""
                   THEN /\ run' = [run EXCEPT !.error = r.error]
                        /\ pc' = "failed"
                        /\ UNCHANGED events
                   ELSE /\ run' = [run EXCEPT !.receipt = r.receipt]
                        /\ events' = Append(events, [Event("S5_CHECKOUT") EXCEPT
                                                        !.vendor = best_offer.vendor])
                        /\ pc' = "end"
    /\ UNCHANGED <<impl, request, offers, best_offer, trust, evals, loc>>
    /\ UNCHANGED <<now, calls>>
    /\ UNCHANGED <<budgeter, token_log, sourcing, fn>>

\* the edge s4_trust -> END of the graph built without checkout
GraphEnd ==
    /\ pc = "done"
    /\ impl = "graph"
    /\ ~has_checkout(run.include_checkout)
    /\ pc' = "end"
    /\ UNCHANGED <<impl, request, offers, best_offer, trust, events, evals, loc>>
    /\ UNCHANGED payVars
    /\ UNCHANGED extVars

\* run_saga after S4: with auto_checkout the payment takes the price of the
\* best offer and call_checkout returns a receipt or fails (pay raises, or
\* the call times out: raises); without it the run returns with no receipt
SagaCheckout(raises) ==
    /\ pc = "done"
    /\ impl = "coordinator"
    /\ IF ~run.include_checkout
       THEN /\ pc' = "end"
            /\ UNCHANGED <<run, events, RECEIPT_STORE, CARD_ACTIVITY>>
       ELSE IF raises
       THEN /\ events' = Append(events, [Event("S5_CHECKOUT") EXCEPT
                                            !.ok = FALSE, !.reason = "error"])
            /\ run' = [run EXCEPT !.error = "S5 failed",
                                  !.payment.value.amount_usd = best_offer.price_usd]
            /\ pc' = "failed"
            /\ UNCHANGED <<RECEIPT_STORE, CARD_ACTIVITY>>
       ELSE LET payment == [run.payment.value EXCEPT
                               !.amount_usd = best_offer.price_usd]
                r == pay(PayOfferOf(best_offer), payment,
                         run.idempotency_key, RECEIPT_STORE, CARD_ACTIVITY, now)
            IN  /\ RECEIPT_STORE' = r.store
                /\ CARD_ACTIVITY' = r.activity
                /\ IF r.error # ""
                   THEN /\ events' = Append(events, [Event("S5_CHECKOUT") EXCEPT
                                               !.ok = FALSE, !.reason = "error"])
                        /\ run' = [run EXCEPT !.error = "S5 failed",
                                              !.payment.value = payment]
                        /\ pc' = "failed"
                   ELSE /\ events' = Append(events, Event("S5_CHECKOUT"))
                        /\ run' = [run EXCEPT !.receipt = r.receipt,
                                              !.payment.value = payment]
                        /\ pc' = "end"
    /\ UNCHANGED <<impl, request, offers, best_offer, trust, evals, loc>>
    /\ UNCHANGED <<now, calls>>
    /\ UNCHANGED <<budgeter, token_log, sourcing, fn>>

\* the payments of a run: none, a good card, a card with a bad CVV
RunPayments ==
    {NonePayment,
     SomePayment([card_number |-> CardVisa, expiry_mm_yy |-> ExpiryGood,
                  cvv |-> CvvGood, amount_usd |-> 1]),
     SomePayment([card_number |-> CardVisa, expiry_mm_yy |-> ExpiryGood,
                  cvv |-> CvvBad, amount_usd |-> 1])}

\* run_saga_async and run_saga (auto_checkout) take a payment and a key;
\* run_saga_preview_async has no such parameters
InitRun ==
    /\ PayInit
    /\ impl \in {"graph", "coordinator"}
    /\ \E url \in {<<>>, UrlShoply} :
          request = [NoRequest EXCEPT !.preferred_offer_url = url]
    /\ offers = <<>>
    /\ best_offer = NoneOffer
    /\ trust = NoTrust
    /\ events = <<>>
    /\ evals = <<>>
    /\ loc = NoLoc
    /\ pc = "s1"
    /\ fn = NoFn
    /\ budgeter = [st \in Paths |-> NoBudgeter]
    /\ token_log = <<>>
    /\ \E langchain \in BOOLEAN :
          sourcing = [NoSourcing EXCEPT !.langchain = langchain,
                                        !.strategy = StartStrategies(impl)]
    /\ \E checkout \in BOOLEAN, payment \in RunPayments, key \in PayKeys :
          /\ (impl = "graph" /\ ~checkout) => (payment = NonePayment /\ key = <<>>)
          /\ run = [NoRun EXCEPT !.include_checkout = checkout,
                                 !.payment = payment,
                                 !.idempotency_key = key]

NextRun ==
    \/ \E raises \in BOOLEAN : CaptureNode(raises)
    \/ \E raises \in BOOLEAN : IntentNode(raises)
    \/ \E raises \in BOOLEAN : SagaCapture(raises)
    \/ \E raises \in BOOLEAN : SagaConfirm(raises)
    \/ \E st \in Paths, shortlisted \in Shortlists, n \in {MaxTokens} :
          ScoreCandidates(st, shortlisted, n)
    \/ \E st \in Paths, outcome \in ProviderOutcomes, n \in {MaxTokens} :
          ProviderReturns(st, outcome, n)
    \/ \E st \in Paths : StrategyRaises(st)
    \/ GatherRaises
    \/ SourcingMerge
    \/ LegacyMerge
    \/ \E raises \in BOOLEAN : SagaSourcing(raises)
    \/ TrustNodeBegin
    \/ \E duration_ms \in Durations : CompensateStep(duration_ms)
    \/ TrustNodeReturn
    \/ \E raises \in BOOLEAN : SagaTrust(raises)
    \/ \E raises \in BOOLEAN : SagaCompensate(raises)
    \/ CheckoutNode
    \/ GraphEnd
    \/ \E raises \in BOOLEAN : SagaCheckout(raises)

SpecRun == InitRun /\ [][NextRun]_vars

----------------------------------------------------------------------------
(* Run properties                                                          *)

\* the declared stage of an event
StageRank ==
    [S1_CAPTURE |-> 1, S2_CONFIRM |-> 2, S3_BRANCH |-> 3, S3_SOURCING |-> 3,
     S4_TRUST |-> 4, S4_COMPENSATE |-> 4, S5_CHECKOUT |-> 5]

InStageOrder(log) ==
    \A i, j \in 1..Len(log) :
        i < j => StageRank[log[i].stage] <= StageRank[log[j].stage]

IsPrefix(a, b) == Len(a) <= Len(b) /\ SubSeq(b, 1, Len(a)) = a

HasStage(log, stages) == \E i \in 1..Len(log) : log[i].stage \in stages

\* C17: the events of a run appear in stage order S1, S2, S3, S4
\* (S4_TRUST, S4_COMPENSATE), S5, and every step of the run leaves the
\* previous event list as a prefix of the new one.
C17_EventsInStageOrder ==
    [][IsPrefix(events, events') /\ InStageOrder(events')]_vars

C17_Witness ==
    /\ pc = "end"
    /\ \A st \in {"S1_CAPTURE", "S2_CONFIRM", "S3_SOURCING", "S4_TRUST",
                  "S4_COMPENSATE", "S5_CHECKOUT"} : HasStage(events, {st})
    /\ run.receipt # NoReceipt

\* a run without checkout: run_saga_preview_async, run_saga without
\* auto_checkout
Preview == ~run.include_checkout

\* C18: a preview run executes S1 to S4 only: it has no receipt and no
\* S5_CHECKOUT event, its steps leave the receipt store and the card
\* counters unchanged, and it ends after S4.
C18_PreviewStopsAfterS4 ==
    [][Preview =>
          /\ UNCHANGED <<RECEIPT_STORE, CARD_ACTIVITY>>
          /\ run'.receipt = NoReceipt
          /\ ~HasStage(events', {"S5_CHECKOUT"})
          /\ pc' = "end" => pc = "done"]_vars

C18_Witness ==
    /\ Preview
    /\ impl = "graph"
    /\ pc = "end"
    /\ best_offer # NoneOffer
    /\ events[Len(events)].stage \in {"S4_TRUST", "S4_COMPENSATE"}
    /\ HasStage(events, {"S1_CAPTURE"})

\* the soft-failure events
NoOfferEvent == [Event("S4_TRUST") EXCEPT !.ok = FALSE, !.reason = "no_offer"]

MissingEvent ==
    [Event("S5_CHECKOUT") EXCEPT !.ok = FALSE, !.reason = "missing_payment_or_offer"]

\* C19: S4 started without a best offer appends S4_TRUST ok=false
\* reason=no_offer and does not raise; S5 started without a best offer or
\* without a payment appends S5_CHECKOUT ok=false
\* reason=missing_payment_or_offer, leaves the store and the counters as
\* they are (pay is not called), and the run ends with no receipt.
C19_SoftFailures ==
    [][/\ (pc = "s4" /\ best_offer = NoneOffer)
            => /\ events' = Append(events, NoOfferEvent)
               /\ pc' # "failed"
               /\ run'.error = ""
       /\ (pc = "done" /\ pc' # "done" /\ run.include_checkout
              /\ (best_offer = NoneOffer \/ ~run.payment.some))
            => /\ events' = Append(events, MissingEvent)
               /\ UNCHANGED <<RECEIPT_STORE, CARD_ACTIVITY>>
               /\ pc' = "end"
               /\ run'.receipt = NoReceipt
               /\ run'.error = ""]_vars

C19_Witness ==
    /\ pc = "end"
    /\ best_offer = NoneOffer
    /\ run.payment.some
    /\ run.receipt = NoReceipt
    /\ \E i \in 1..Len(events) : events[i] = NoOfferEvent
    /\ events[Len(events)] = MissingEvent

\* S3 has returned and found nothing
S3FoundNothing == HasStage(events, {"S3_SOURCING"}) /\ offers = <<>>

\* C20: when S3 produces no offers the run fails at S3 and neither S4 nor
\* S5 is executed.
C20_NoOffersFatal ==
    S3FoundNothing
        => /\ pc = "failed"
           /\ ~HasStage(events, {"S4_TRUST", "S4_COMPENSATE", "S5_CHECKOUT"})


\* the stage a run is in at each position of its control
StageOfPc ==
    [s1 |-> "S1_CAPTURE", s2 |-> "S2_CONFIRM", s3_strategies |-> "S3_SOURCING",
     s3_legacy |-> "S3_SOURCING", s4 |-> "S4_TRUST", done |-> "S5_CHECKOUT"]

\* a step in which a stage ends the run with an error (the missing_payment
\* guard of run_saga precedes every stage)
StageFails ==
    /\ pc \in DOMAIN StageOfPc
    /\ pc' = "failed"
    /\ run'.error # "missing_payment"

\* C21: whenever a stage raises or times out, an event of that stage with
\* ok=false is appended to the event log before the error reaches the
\* caller.
C21_FailureLogged ==
    [][StageFails =>
          /\ Len(events') = Len(events) + 1
          /\ IsPrefix(events, events')
          /\ events'[Len(events')].stage = StageOfPc[pc]
          /\ ~events'[Len(events')].ok]_vars

----------------------------------------------------------------------------
(* Properties of the S3 merge                                              *)

\* S3 of a graph run has merged its two results
Merged == impl = "graph" /\ pc = "s4"

\* sourcing_node took its except branch
FellBack == sourcing.strategy["legacy"].pc # "idle"

\* the offers of the lists sourcing_node merges: the results of the two
\* strategies, or of the legacy call alone
StrategyOffers ==
    UNION {{sourcing.strategy[st].result[i] : i \in 1..Len(sourcing.strategy[st].result)}
              : st \in IF FellBack THEN {"legacy"} ELSE Strategies}

SameUrl(a, b) == normalize_url(a.url) = normalize_url(b.url)

\* C22: the merged offers have pairwise distinct normalised URLs, each kept
\* offer carries the maximum score its URL has in the strict and fuzzy
\* results, every returned URL is kept, and the list is sorted by score in
\* descending order.
C22_MergeDistinctMaxSorted ==
    Merged =>
        /\ \A i, j \in 1..Len(offers) : i # j => ~SameUrl(offers[i], offers[j])
        /\ \A i \in 1..Len(offers) :
              /\ offers[i] \in StrategyOffers
              /\ \A o \in StrategyOffers : SameUrl(o, offers[i]) => o.score <= offers[i].score
        /\ \A o \in StrategyOffers : \E i \in 1..Len(offers) : SameUrl(o, offers[i])
        /\ \A i, j \in 1..Len(offers) : i < j => offers[i].score >= offers[j].score

C22_Witness ==
    /\ Merged
    /\ Len(offers) = 5
    /\ \E a, b \in StrategyOffers : SameUrl(a, b) /\ a.url # b.url /\ a.score < b.score
    /\ offers[1].score = 12


\* C23: the offers list S3 hands to the later stages holds at most top_k
\* offers, whatever the two strategies return.
C23_MergedAtMostTopK == Merged => Len(offers) <= TOP_K

----------------------------------------------------------------------------
(* apps/agent3_sourcing/main.py: filtering, scoring and the shortlist.     *)
(* Scores are kept in units of 1/10000, the precision of round(.., 4).     *)

\* str.strip()
RECURSIVE LStripSpace(_)
LStripSpace(s) == IF s # <<>> /\ Head(s) = " " THEN LStripSpace(Tail(s)) ELSE s

Strip(s) == LStripSpace(RStrip(s, " "))

\* str.split(): the maximal runs without a blank
RECURSIVE SplitWords(_)
SplitWords(s) ==
    LET t == LStripSpace(s)
    IN  IF t = <<>> THEN <<>>
        ELSE LET stop == IF \E i \in 1..Len(t) : t[i] = " "
                         THEN (CHOOSE i \in 1..Len(t) :
                                  t[i] = " " /\ \A j \in 1..(i - 1) : t[j] # " ") - 1
                         ELSE Len(t)
             IN  <<SubSeq(t, 1, stop)>> \o SplitWords(SubSeq(t, stop + 1, Len(t)))

\* term in title.lower() or any(term in kw.lower() for kw in keywords)
InTitleOrKeywords(term, item) ==
    \/ Contains(Lower(item.title), term)
    \/ \E k \in 1..Len(item.keywords) : Contains(Lower(item.keywords[k]), term)

\* [tok for tok in query.split() if len(tok) > 2]
QueryTokens(text) == SelectSeq(SplitWords(text), LAMBDA tok : Len(tok) > 2)

\* _filter_items_fuzzy
filter_items_fuzzy(pi, catalog) ==
    LET by_cat   == SelectSeq(catalog, LAMBDA c : c.category = pi.category)
        filtered == IF pi.category # <<>> /\ by_cat # <<>> THEN by_cat ELSE catalog
        text     == Strip(Lower(pi.item_name))
        direct   == SelectSeq(filtered, LAMBDA c : InTitleOrKeywords(text, c))
        tokens   == QueryTokens(text)
        by_token == SelectSeq(filtered, LAMBDA c :
                        \E t \in 1..Len(tokens) : InTitleOrKeywords(tokens[t], c))
        matches  == IF direct # <<>> THEN direct ELSE by_token
    IN  IF text # <<>> /\ matches # <<>> THEN matches ELSE filtered

\* an Optional number that is set and not zero (Python truthiness)
Truthy(opt) == opt.some /\ opt.value # 0

\* _match_bonus, in 1/10000
match_bonus(pi, item) ==
    (IF pi.brand # <<>> /\ InTitleOrKeywords(Lower(pi.brand), item) THEN 2500 ELSE 0)
    + (IF pi.color # <<>> /\ InTitleOrKeywords(Lower(pi.color), item) THEN 1500 ELSE 0)
    + (IF pi.item_name # <<>> /\ InTitleOrKeywords(Lower(pi.item_name), item)
       THEN 2000 ELSE 0)
    + (IF Truthy(pi.budget_usd) /\ item.price_usd # 0
          /\ item.price_usd <= pi.budget_usd.value THEN 1000 ELSE 0)

SeqMin(values) == CHOOSE v \in {values[i] : i \in 1..Len(values)} :
                      \A i \in 1..Len(values) : v <= values[i]

SeqMax(values) == CHOOSE v \in {values[i] : i \in 1..Len(values)} :
                      \A i \in 1..Len(values) : v >= values[i]

\* 1 - _norm(values)[idx] as the fraction <<numerator, denominator>>: one
\* half when all values are equal
one_minus_norm(values, v) ==
    IF SeqMax(values) = SeqMin(values) THEN <<1, 2>>
    ELSE <<SeqMax(values) - v, SeqMax(values) - SeqMin(values)>>

\* _score_item: round(base + bonus, 4) with
\* base = 0.6 (1 - price_norm) + 0.2 (1 - ship_norm) + 0.2 (1 - eta_norm)
score_item(pi, item, candidates) ==
    LET p == one_minus_norm([i \in 1..Len(candidates) |-> candidates[i].price_usd],
                            item.price_usd)
        h == one_minus_norm([i \in 1..Len(candidates) |-> candidates[i].shipping_days],
                            item.shipping_days)
        e == one_minus_norm([i \in 1..Len(candidates) |-> candidates[i].eta_days],
                            item.eta_days)
        num == 6000 * p[1] * h[2] * e[2] + 2000 * h[1] * p[2] * e[2]
               + 2000 * e[1] * p[2] * h[2]
        den == p[2] * h[2] * e[2]
    IN  [title |-> item.title, category |-> item.category, price_usd |-> item.price_usd,
         url |-> item.url,
         score |-> ((2 * num + den) \div (2 * den)) + match_bonus(pi, item)]

\* variant: the shortlist is the whole sorted list
slice_to_All(lst, k) == lst

\* lst[:k]
slice_to(lst, k) ==
    IF k >= 0 THEN SubSeq(lst, 1, Min(k, Len(lst)))
    ELSE SubSeq(lst, 1, Max(0, Len(lst) + k))

\* list.sort(key=price): stable, ascending
RECURSIVE sorted_by_price(_)
sorted_by_price(lst) ==
    IF lst = <<>> THEN <<>>
    ELSE LET rest   == sorted_by_price(SubSeq(lst, 1, Len(lst) - 1))
             o      == lst[Len(lst)]
             before == SelectSeq(rest, LAMBDA q : q.price_usd <= o.price_usd)
             after  == SelectSeq(rest, LAMBDA q : q.price_usd > o.price_usd)
         IN  before \o <<o>> \o after

\* _best_budget_fallback
best_budget_fallback(pi, catalog, top_k) ==
    LET budget_items == SelectSeq(catalog, LAMBDA c :
                            Truthy(pi.budget_usd) /\ c.price_usd <= pi.budget_usd.value)
        cheapest     == slice_to(sorted_by_price(budget_items), top_k)
    IN  [i \in 1..Len(cheapest) |->
            [title |-> cheapest[i].title, category |-> cheapest[i].category,
             price_usd |-> cheapest[i].price_usd, url |-> cheapest[i].url,
             score |-> 5000]]

\* _score_candidates up to the shortlist
shortlist_of(pi, candidates, top_k) ==
    slice_to(sorted_by_score([i \in 1..Len(candidates) |->
                                 score_item(pi, candidates[i], candidates)]), top_k)

\* _score_candidates without the rerank (USE_LANGCHAIN_SOURCING unset)
score_candidates(pi, candidates, catalog, top_k) ==
    LET shortlisted == shortlist_of(pi, candidates, top_k)
    IN  IF shortlisted = <<>> /\ Truthy(pi.budget_usd)
        THEN best_budget_fallback(pi, catalog, top_k)
        ELSE shortlisted

\* _filter_items_fuzzy(pi, catalog) or catalog
fuzzy_candidates(pi, catalog) ==
    IF filter_items_fuzzy(pi, catalog) # <<>> THEN filter_items_fuzzy(pi, catalog)
    ELSE catalog

\* offers_for_intent
offers_for_intent(pi, top_k, catalog) ==
    score_candidates(pi, fuzzy_candidates(pi, catalog), catalog, top_k)

Laptop == <<"l", "a", "p", "t", "o", "p">>

Electronics == <<"e", "l">>

\* a mock catalog
SourcingCatalog ==
    <<[title |-> <<"L", "a", "p", "t", "o", "p">>, category |-> Electronics,
       keywords |-> <<>>, price_usd |-> 150, shipping_days |-> 2, eta_days |-> 3,
       url |-> <<"h", "/", "l", "1">>],
      [title |-> <<"L", "a", "p", "t", "o", "p", " ", "P", "r", "o">>,
       category |-> Electronics, keywords |-> <<>>, price_usd |-> 300,
       shipping_days |-> 1, eta_days |-> 2, url |-> <<"h", "/", "l", "2">>],
      [title |-> <<"M", "o", "u", "s", "e">>, category |-> Electronics,
       keywords |-> <<<<"p", "c">>>>, price_usd |-> 20, shipping_days |-> 5,
       eta_days |-> 6, url |-> <<"h", "/", "m", "o">>],
      [title |-> <<"B", "o", "t", "t", "l", "e">>, category |-> <<"d", "r">>,
       keywords |-> <<>>, price_usd |-> 10, shipping_days |-> 2, eta_days |-> 3,
       url |-> <<"h", "/", "b", "o">>]>>

MaxK == 2

\* the intents and top_k values explored (the /offers endpoint passes any
\* non-zero top_k through)
SourcingIntents ==
    [item_name : {Laptop, <<"p", "c", " ", "m", "o", "u", "s", "e">>, <<"t", "v">>},
     category : {<<>>, Electronics, <<"z", "z">>},
     budget_usd : {NoneInt, SomeInt(200), SomeInt(15)},
     brand : {<<>>}, color : {<<>>}]

InitOffers ==
    /\ PayInit
    /\ S4Idle
    /\ budgeter = [st \in Paths |-> NoBudgeter]
    /\ token_log = <<>>
    /\ sourcing = NoSourcing
    /\ run = NoRun
    /\ \E pi \in SourcingIntents, top_k \in (-1)..MaxK :
          fn = [name |-> "", args |-> <<pi, top_k>>, result |-> <<>>]

\* await offers_for_intent(pi, top_k)
OffersForIntent ==
    /\ fn.name = ""
    /\ fn' = [fn EXCEPT !.name = "offers_for_intent",
                        !.result = offers_for_intent(fn.args[1], fn.args[2],
                                                     SourcingCatalog)]
    /\ UNCHANGED <<budgeter, token_log, sourcing, run>>
    /\ UNCHANGED payVars
    /\ UNCHANGED s4Vars

NextOffers == OffersForIntent

SpecOffers == InitOffers /\ [][NextOffers]_vars

\* offers_for_intent has returned for an intent with a budget
OffersReturned == fn.name = "offers_for_intent"

BudgetOf == fn.args[1].budget_usd

----------------------------------------------------------------------------
(* _raise_risk applied again and again to a current band                   *)

RiskBands == {"low", "medium", "high"}

MaxRaises == 4

\* fn.args is the list of bands so far (the first is the start), fn.result
\* the current band
InitRisk ==
    /\ PayInit
    /\ S4Idle
    /\ budgeter = [st \in Paths |-> NoBudgeter]
    /\ token_log = <<>>
    /\ sourcing = NoSourcing
    /\ run = NoRun
    /\ \E current \in RiskBands :
          fn = [name |-> "_raise_risk", args |-> <<current>>, result |-> current]

\* current = _raise_risk(current, target)
RaiseRisk(target) ==
    /\ fn.name = "_raise_risk"
    /\ Len(fn.args) <= MaxRaises
    /\ fn' = [fn EXCEPT !.args = Append(@, target),
                        !.result = raise_risk(fn.result, target)]
    /\ UNCHANGED <<budgeter, token_log, sourcing, run>>
    /\ UNCHANGED payVars
    /\ UNCHANGED s4Vars

NextRisk == \E target \in RiskBands : RaiseRisk(target)

SpecRisk == InitRisk /\ [][NextRisk]_vars

RankMax(a, b) == IF RiskRank[a] >= RiskRank[b] THEN a ELSE b

\* C25: raise_risk(current, target) is the maximum of the two bands in the
\* order low < medium < high, so no call of a sequence lowers the current
\* band; raise_risk is idempotent and commutative on the three bands.
C25_RaiseRiskIsMax ==
    [][/\ fn'.result = RankMax(fn.result, fn'.args[Len(fn'.args)])
       /\ RiskRank[fn'.result] >= RiskRank[fn.result]
       /\ \A i \in 1..Len(fn'.args) : RiskRank[fn'.result] >= RiskRank[fn'.args[i]]
       /\ \A a, b \in RiskBands :
             /\ raise_risk(a, a) = a
             /\ raise_risk(raise_risk(a, b), b) = raise_risk(a, b)
             /\ raise_risk(a, b) = raise_risk(b, a)]_vars

C25_Witness ==
    /\ fn.name = "_raise_risk"
    /\ fn.args = <<"low", "medium", "low", "high", "medium">>
    /\ fn.result = "high"

----------------------------------------------------------------------------
(* _compute_risk and assess applied to one profile and one offer           *)

ClickMart == <<"C", "l", "i", "c", "k", "M", "a", "r", "t">>

ShadyShop == <<"S", "h", "a", "d", "y", "S", "h", "o", "p">>

\* the profiles of the table, the default profile, and a clean profile with
\* slow refunds
RiskProfiles ==
    {VENDOR_PROFILES[v] : v \in DOMAIN VENDOR_PROFILES}
    \cup {DefaultProfile}
    \cup {[VENDOR_PROFILES[Mockazon] EXCEPT !.average_refund_time_days = d] : d \in {12, 20}}

RiskOffers ==
    {[OfferAt(UrlMock) EXCEPT !.vendor = v, !.url = u] :
        v \in {Mockazon, GigaDeal, ShadyShop, ClickMart},
        u \in {UrlMock, UrlFree, UrlClick}}

InitAssess ==
    /\ PayInit
    /\ S4Idle
    /\ budgeter = [st \in Paths |-> NoBudgeter]
    /\ token_log = <<>>
    /\ sourcing = NoSourcing
    /\ run = NoRun
    /\ \E profile \in RiskProfiles, offer \in RiskOffers :
          fn = [name |-> "", args |-> <<profile, offer>>, result |-> <<>>]

\* _compute_risk(profile, offer)
ComputeRisk ==
    /\ fn.name = ""
    /\ fn' = [fn EXCEPT !.name = "_compute_risk",
                        !.result = compute_risk(fn.args[1], fn.args[2])]
    /\ UNCHANGED <<budgeter, token_log, sourcing, run>>
    /\ UNCHANGED payVars
    /\ UNCHANGED s4Vars

\* await assess(offer): the profile is looked up by the vendor name
Assess ==
    /\ fn.name = ""
    /\ fn' = [fn EXCEPT !.name = "assess", !.result = assess(fn.args[2])]
    /\ UNCHANGED <<budgeter, token_log, sourcing, run>>
    /\ UNCHANGED payVars
    /\ UNCHANGED s4Vars

NextAssess == ComputeRisk \/ Assess

SpecAssess == InitAssess /\ [][NextAssess]_vars

\* a known vendor with TLS, an old domain, policy pages, good reviews and
\* returns
CleanKnown(vendor) ==
    /\ vendor \in DOMAIN VENDOR_PROFILES
    /\ LET p == VENDOR_PROFILES[vendor]
       IN  /\ p.tls /\ p.has_policy_pages /\ ~p.historical_issues /\ p.accepts_returns
           /\ p.domain_age_days >= 365 /\ p.happy_reviews_pct >= 75

\* C27: an offer whose URL contains a suspicious term is assessed as high
\* risk even when its vendor has a clean known profile.
C27_SuspiciousUrlIsHigh ==
    (fn.name = "assess" /\ suspicious_url(fn.args[2].url) /\ CleanKnown(fn.args[2].vendor))
        => fn.result.risk = "high"

\* the score of the weight table in half points, every row counted on its
\* own
TableScoreX2(profile, offer) ==
    (IF ~profile.tls THEN 4 ELSE 0)
    + (IF ~profile.has_policy_pages THEN 2 ELSE 0)
    + (IF profile.domain_age_days < 365 THEN 2 ELSE 0)
    + (IF profile.domain_age_days < 90 THEN 2 ELSE 0)
    + (IF profile.historical_issues THEN 4 ELSE 0)
    + (IF profile.happy_reviews_pct < 75 THEN 2 ELSE 0)
    + (IF profile.happy_reviews_pct < 60 THEN 2 ELSE 0)
    + (IF ~profile.accepts_returns THEN 4 ELSE 0)
    + (IF profile.accepts_returns /\ profile.average_refund_time_days > 14 THEN 2 ELSE 0)
    + (IF profile.accepts_returns /\ profile.average_refund_time_days > 10 THEN 1 ELSE 0)
    + (IF suspicious_vendor_name(offer.vendor) THEN 4 ELSE 0)
    + (IF suspicious_url(offer.url) THEN 4 ELSE 0)

BandOfX2(score) ==
    IF score <= 2 THEN "low" ELSE IF score <= 7 THEN "medium" ELSE "high"

\* C29: the rule-based score is the sum of the weights of all table rows
\* that hold, each row on its own (suspicious vendor name 2 and suspicious
\* URL another 2; refund_days > 14 and refund_days > 10 each their weight),
\* and the band is low up to 1, medium up to 3.5, high above.
C29_ScoreIsSumOfRows ==
    fn.name = "_compute_risk"
        => /\ RiskScoreX2(fn.args[1], fn.args[2]) = TableScoreX2(fn.args[1], fn.args[2])
           /\ fn.result = BandOfX2(TableScoreX2(fn.args[1], fn.args[2]))

----------------------------------------------------------------------------
(* S4 runs over listings that carry replica wording                        *)

\* a listing of a clean vendor whose title and keywords carry replica terms
ReplicaListing ==
    [vendor |-> Mockazon,
     title |-> <<"b", "o", "t", "t", "l", "e", " ", "S", "t", "y", "l", "e">>,
     description |-> <<>>, keywords |-> <<<<"i", "n", "s", "p", "i", "r", "e", "d">>>>,
     domain_name |-> <<>>, price_usd |-> 100, url |-> <<"h", "/", "r">>, score |-> 7]

ReplicaCatalog ==
    {OfferAt(UrlClick), OfferAt(UrlGiga), OfferAt(UrlMock), ReplicaListing}

InitReplica ==
    /\ PayInit
    /\ impl \in {"graph", "coordinator"}
    /\ \E url \in {<<>>, ReplicaListing.url}, hypothesis \in Hypotheses :
          request = [NoRequest EXCEPT !.preferred_offer_url = url,
                                      !.hypothesis = hypothesis]
    /\ offers \in {SortByScore(S) : S \in (SUBSET ReplicaCatalog) \ {{}}}
    /\ best_offer = NoneOffer
    /\ trust = NoTrust
    /\ events = <<>>
    /\ evals = <<>>
    /\ loc = NoLoc
    /\ pc = "s3"
    /\ ExtIdle

SpecReplica == InitReplica /\ [][NextS4]_vars

\* the replica terms in the title, description and keywords of an offer
ReplicaHits(offer) ==
    {term \in REPLICA_TERMS :
        Contains(Lower(JoinNonEmpty(<<offer.title, offer.description,
                                      Join(offer.keywords)>>)), term)}

\* S4 holds its assessment of the best offer S3 selected
S4Assessed ==
    \/ impl = "graph" /\ pc \in {"s4_loop", "s4_return"}
    \/ impl = "coordinator" /\ (pc = "saga_comp" \/ (pc = "done" /\ Len(evals) = 1))

OriginalTrust == IF impl = "graph" THEN loc.trust ELSE trust

\* C26: if the title, description or keywords of the best offer S4
\* evaluates contain a replica term, its assessment records the matching
\* terms and has risk high, whatever the vendor profile.
C26_ReplicaIsHigh ==
    (S4Assessed /\ ReplicaHits(evals[1]) # {})
        => /\ OriginalTrust.risk = "high"
           /\ OriginalTrust.replica_terms = ReplicaHits(evals[1])

\* C30: the risk of a compensation candidate that wins the switch comes
\* from the same full evaluation as the original best offer's (rule score,
\* cross-checks, replica cues), so S4 never switches to a candidate whose
\* text contains a replica term.
C30_CandidateFullyEvaluated ==
    (impl = "graph" /\ pc = "s4_return" /\ Switched)
        => /\ loc.updated_trust.risk =
                 cross_check(assess(loc.updated_best), loc.updated_best,
                             request.hypothesis).risk
           /\ ReplicaHits(loc.updated_best) = {}

----------------------------------------------------------------------------
(* apps/agent2_intent/main.py: the deterministic intent parser             *)

WhitespaceChars == {" ", "\t", "\n", "\r"}

\* a character the regex class \w matches
IsWordChar(ch) ==
    \/ IsDigit(ch)
    \/ ch = "_"
    \/ ch \in DOMAIN LowerOf
    \/ \E i \in 1..Len(LowercaseLetters) : LowercaseLetters[i] = ch

\* s[i:].startswith(word)
At(s, i, word) == i + Len(word) - 1 <= Len(s) /\ SubSeq(s, i, i + Len(word) - 1) = word

\* the index after the longest run of digits that starts at i
RECURSIVE DigitRunEnd(_, _)
DigitRunEnd(s, i) == IF i <= Len(s) /\ IsDigit(s[i]) THEN DigitRunEnd(s, i + 1) ELSE i

\* the index after the longest run of whitespace that starts at i
RECURSIVE SkipSpaces(_, _)
SkipSpaces(s, i) ==
    IF i <= Len(s) /\ s[i] \in WhitespaceChars THEN SkipSpaces(s, i + 1) ELSE i

\* int(digits)
RECURSIVE ToInt(_)
ToInt(digits) ==
    IF digits = <<>> THEN 0
    ELSE 10 * ToInt(SubSeq(digits, 1, Len(digits) - 1)) + DigitValue[digits[Len(digits)]]

SetMin(S) == CHOOSE x \in S : \A y \in S : x <= y

\* re.search(r"(\d+)\s*(qty|quantity|units?)", s): the starts of matches
CountThenWord(s) ==
    {i \in 1..Len(s) :
        /\ IsDigit(s[i])
        /\ LET k == SkipSpaces(s, DigitRunEnd(s, i))
           IN  \/ At(s, k, <<"q", "t", "y">>)
               \/ At(s, k, <<"q", "u", "a", "n", "t", "i", "t", "y">>)
               \/ At(s, k, <<"u", "n", "i", "t">>)}

\* where the number of (qty|quantity)\s*[:\-]?\s*(\d+) starts for the word
\* at i, or 0 when the pattern does not match there
NumberAfterWord(s, i) ==
    LET word == IF At(s, i, <<"q", "t", "y">>) THEN <<"q", "t", "y">>
                ELSE IF At(s, i, <<"q", "u", "a", "n", "t", "i", "t", "y">>) THEN <<"q", "u", "a", "n", "t", "i", "t", "y">> ELSE <<>>
        k1 == SkipSpaces(s, i + Len(word))
        k2 == IF k1 <= Len(s) /\ s[k1] \in {":", "-"} THEN SkipSpaces(s, k1 + 1) ELSE k1
    IN  IF word # <<>> /\ k2 <= Len(s) /\ IsDigit(s[k2]) THEN k2 ELSE 0

\* re.search(r"\b(\d+)\b", s): the starts of matches
BareNumbers(s) ==
    {i \in 1..Len(s) :
        /\ IsDigit(s[i])
        /\ i = 1 \/ ~IsWordChar(s[i - 1])
        /\ LET e == DigitRunEnd(s, i) IN e > Len(s) \/ ~IsWordChar(s[e])}

extract_qty(text) ==
    LET lowered == Lower(text)
        m == CountThenWord(lowered)
        compact == {i \in 1..Len(lowered) : NumberAfterWord(lowered, i) # 0}
        number == BareNumbers(text)
    IN  IF m # {}
        THEN ToInt(SubSeq(lowered, SetMin(m), DigitRunEnd(lowered, SetMin(m)) - 1))
        ELSE IF compact # {}
        THEN LET k == NumberAfterWord(lowered, SetMin(compact))
             IN  ToInt(SubSeq(lowered, k, DigitRunEnd(lowered, k) - 1))
        ELSE IF number # {}
        THEN ToInt(SubSeq(text, SetMin(number), DigitRunEnd(text, SetMin(number)) - 1))
        ELSE 1

\* (hypo.display_name or hypo.label or "item").strip()
item_display(hypo) ==
    Strip(IF hypo.display_name # <<>> THEN hypo.display_name
          ELSE IF hypo.label # <<>> THEN hypo.label ELSE <<"i", "t", "e", "m">>)

\* quantity = qty or 1
confirm_from_choice(hypo, choice_key, qty) ==
    [item_name |-> IF choice_key = "different_bottle_same_brand" /\ hypo.brand # <<>>
                   THEN hypo.brand \o <<" ">> \o item_display(hypo)
                   ELSE item_display(hypo),
     quantity |-> IF qty # 0 THEN qty ELSE 1,
     brand |-> hypo.brand,
     category |-> IF hypo.category # <<>> THEN hypo.category ELSE hypo.item_type]

\* the intent confirm_intent builds without the LLM chain; color, size and
\* budget_usd are parsed independently of the quantity and are left out
confirm_intent(hypo, user_text) ==
    LET t == Strip(Lower(user_text))
        qty == extract_qty(t)
        item == item_display(hypo)
        category == IF hypo.category # <<>> THEN hypo.category ELSE hypo.item_type
        label == IF hypo.label # <<>> THEN hypo.label ELSE <<"o", "b", "j", "e", "c", "t">>
        plain(brand, cat) ==
            [item_name |-> item, quantity |-> qty, brand |-> brand, category |-> cat]
    IN  IF Lower(label) = <<"o", "b", "j", "e", "c", "t">> /\ category = <<>>
        THEN plain(hypo.brand, <<>>)
        ELSE IF Contains(t, <<"s", "a", "m", "e">>) /\ Contains(t, Lower(item))
        THEN confirm_from_choice(hypo, "same_bottle", qty)
        ELSE IF \/ Contains(t, <<"s", "a", "m", "e", " ", "i", "t", "e", "m">>)
                \/ Contains(t, <<"s", "a", "m", "e", " ", "p", "r", "o", "d", "u", "c", "t">>)
                \/ Contains(t, <<"s", "a", "m", "e", " ", "o", "n", "e">>)
        THEN confirm_from_choice(hypo, "same_bottle", qty)
        ELSE IF Contains(t, <<"d", "i", "f", "f", "e", "r", "e", "n", "t", " ", "c", "o", "l", "o", "r">>) \/ Contains(t, <<"o", "t", "h", "e", "r", " ", "c", "o", "l", "o", "r">>)
        THEN confirm_from_choice(hypo, "different_color", qty)
        ELSE IF Contains(t, <<"d", "i", "f", "f", "e", "r", "e", "n", "t">>) /\ Contains(t, <<"s", "a", "m", "e", " ", "b", "r", "a", "n", "d">>)
        THEN confirm_from_choice(hypo, "different_bottle_same_brand", qty)
        ELSE plain(IF Contains(t, <<"d", "i", "f", "f", "e", "r", "e", "n", "t", " ", "b", "r", "a", "n", "d">>) THEN <<>> ELSE hypo.brand,
                   category)

hypo_bottle ==
    [label |-> <<"b", "o", "t", "t", "l", "e">>, display_name |-> <<"w", "a", "t", "e", "r", " ", "b", "o", "t", "t", "l", "e">>,
     brand |-> <<"N", "i", "k", "e">>, category |-> <<"d", "r", "i", "n", "k", "w", "a", "r", "e">>, item_type |-> <<>>]

hypo_object ==
    [label |-> <<"o", "b", "j", "e", "c", "t">>, display_name |-> <<>>,
     brand |-> <<>>, category |-> <<>>, item_type |-> <<>>]

\* the pieces user texts are put together from
TextParts ==
    {<<"s", "a", "m", "e", " ", "p", "r", "o", "d", "u", "c", "t">>,
     <<"s", "a", "m", "e", " ", "w", "a", "t", "e", "r", " ", "b", "o", "t", "t", "l", "e">>,
     <<"d", "i", "f", "f", "e", "r", "e", "n", "t", " ", "b", "r", "a", "n", "d">>,
     <<"0">>,
     <<"2">>,
     <<" ", "u", "n", "i", "t", "s">>,
     <<"q", "t", "y">>,
     <<"u", "n", "d", "e", "r", " ", "$", "1", "5">>,
     <<" ">>,
     <<"x">>}

MaxParts == 3

RECURSIVE Concat(_)
Concat(parts) == IF parts = <<>> THEN <<>> ELSE Head(parts) \o Concat(Tail(parts))

UserTexts == {Concat(p) : p \in UNION {[1..n -> TextParts] : n \in 0..MaxParts}}

InitIntent ==
    /\ PayInit
    /\ S4Idle
    /\ budgeter = [st \in Paths |-> NoBudgeter]
    /\ token_log = <<>>
    /\ sourcing = NoSourcing
    /\ run = NoRun
    /\ \E hypo \in {hypo_bottle, hypo_object}, user_text \in UserTexts,
          chain \in {"off", "raises"} :
          fn = [name |-> "", args |-> <<hypo, user_text, chain>>, result |-> <<>>]

\* await confirm_intent(hypo, user_text), with the LLM chain switched off
\* or raising (its exception is logged and the parser takes over)
ConfirmIntent ==
    /\ fn.name = ""
    /\ fn' = [fn EXCEPT !.name = "confirm_intent",
                        !.result = confirm_intent(fn.args[1], fn.args[2])]
    /\ UNCHANGED <<budgeter, token_log, sourcing, run>>
    /\ UNCHANGED payVars
    /\ UNCHANGED s4Vars

NextIntent == ConfirmIntent

SpecIntent == InitIntent /\ [][NextIntent]_vars

\* C28: every PurchaseIntent produced by S2's deterministic path has
\* quantity >= 1, for any user text (no quantity wording, a budget number,
\* the number 0).
C28_QuantityAtLeastOne ==
    fn.name = "confirm_intent" => fn.result.quantity >= 1

----------------------------------------------------------------------------
(* The assessment and the events S4 leaves behind                          *)

\* S4 has completed with an offer
S4Completed == pc = "done" /\ best_offer # NoneOffer /\ trust # NoTrust

\* S4 ended on another offer than the one it first evaluated
S4Switched == S4Completed /\ best_offer # evals[1]

\* C31: after S4 completes with an offer, trust is the assessment of
\* best_offer (trust.vendor = best_offer.vendor), switched or not; when it
\* switched, the log holds an S4_TRUST event for the original offer and a
\* separate, later S4_COMPENSATE event for the chosen candidate.
C31_TrustIsOfBestOffer ==
    /\ S4Completed => trust.vendor = best_offer.vendor
    /\ S4Switched =>
          \E i, j \in 1..Len(events) :
              /\ i < j
              /\ events[i].stage = "S4_TRUST" /\ events[i].ok
              /\ events[i].risk = assess(evals[1]).risk
              /\ impl = "graph" => events[i].vendor = evals[1].vendor
              /\ events[j].stage = "S4_COMPENSATE" /\ events[j].switched
              /\ events[j].risk = trust.risk
              /\ impl = "graph" => events[j].vendor = best_offer.vendor

\* a graph run that switched to an offer of another vendor
C31_Witness ==
    /\ impl = "graph" /\ S4Switched
    /\ best_offer.vendor # evals[1].vendor

\* the positions of the S4_COMPENSATE events that record a switch
SwitchEvents ==
    {i \in 1..Len(events) : events[i].stage = "S4_COMPENSATE" /\ events[i].switched}

\* where an offer stands in the offers list
PositionOf(offer) == CHOOSE i \in 1..Len(offers) : offers[i] = offer

\* C32: at most one S4_COMPENSATE event has switched = true and no
\* S4_COMPENSATE event follows it; trust_node evaluates its candidates one
\* at a time in offers-list order.
C32_FirstSwitchEndsLoop ==
    /\ Cardinality(SwitchEvents) <= 1
    /\ \A i \in SwitchEvents :
          \A j \in (i + 1)..Len(events) : events[j].stage # "S4_COMPENSATE"
    /\ impl = "graph" =>
          \A k \in 2..(Len(evals) - 1) : PositionOf(evals[k]) < PositionOf(evals[k + 1])

\* a graph run whose second candidate won while a later offer was left
\* unevaluated
C32_Witness ==
    /\ impl = "graph" /\ pc = "done"
    /\ Len(evals) = 3 /\ Len(offers) = 4
    /\ best_offer = evals[3]
    /\ comp_K(request) = S4_COMP_TOPK
    /\ PositionOf(evals[3]) < 4

----------------------------------------------------------------------------
(* The legacy path of S3                                                   *)

\* a strategy of the run has raised
StrategyRaised == \E st \in Strategies : sourcing.strategy[st].pc = "raised"

\* the S3_BRANCH event of a run whose S3 has just returned
BranchEvent == events[Len(events) - 1]

\* what S3 returns after a strategy raised: the legacy result alone
LegacyOnly ==
    (Merged /\ StrategyRaised)
        => /\ FellBack
           /\ BranchEvent.stage = "S3_BRANCH"
           /\ BranchEvent.strict_count = 0
           /\ BranchEvent.fuzzy_count = Len(sourcing.strategy["legacy"].result)
           /\ offers = merge_offers(<<>>, sourcing.strategy["legacy"].result)

----------------------------------------------------------------------------
(* libs/agents/sourcing_chain.py: the order rerank_offers_with_llm returns *)

MaxRanked == 3

\* the offers handed to the rerank
RerankOffers == <<OfferAt(UrlGiga), OfferAt(UrlMock), OfferAt(UrlShoply)>>

\* the ranked_indices a provider can answer with
RankedIndices == UNION {[1..n -> (-1)..MaxRanked] : n \in 0..MaxRanked}

InitRerank ==
    /\ PayInit
    /\ S4Idle
    /\ budgeter = [st \in Paths |-> NoBudgeter]
    /\ token_log = <<>>
    /\ sourcing = NoSourcing
    /\ run = NoRun
    /\ \E n \in 0..Len(RerankOffers), ranked_indices \in RankedIndices :
          fn = [name |-> "", args |-> <<SubSeq(RerankOffers, 1, n), ranked_indices>>,
                result |-> <<>>]

\* the provider has answered: rerank_offers_with_llm builds its result
Rerank ==
    /\ fn.name = ""
    /\ fn' = [fn EXCEPT !.name = "rerank_offers_with_llm",
                        !.result = apply_ranking(fn.args[1], fn.args[2])]
    /\ UNCHANGED <<budgeter, token_log, sourcing, run>>
    /\ UNCHANGED payVars
    /\ UNCHANGED s4Vars

NextRerank == Rerank

SpecRerank == InitRerank /\ [][NextRerank]_vars

\* how often x occurs in a sequence
Occurrences(seq, x) == Cardinality({i \in 1..Len(seq) : seq[i] = x})

\* an index of the input named by the provider's answer
Ranked(idx) == \E k \in 1..Len(fn.args[2]) : fn.args[2][k] = idx

FirstRanked(idx) == CHOOSE k \in 1..Len(fn.args[2]) :
                        fn.args[2][k] = idx /\ \A j \in 1..(k - 1) : fn.args[2][j] # idx

\* where the offer of a 0-based input index stands in the result
ResultPosition(idx) == CHOOSE p \in 1..Len(fn.result) : fn.result[p] = fn.args[1][idx + 1]

\* C34: for any ranked indices the reranked result is a permutation of the
\* input offers: out-of-range indices are ignored, a repeated index counts
\* at its first occurrence only, and the offers whose index is missing
\* follow in their original order.
C34_RerankIsPermutation ==
    fn.name = "rerank_offers_with_llm" =>
        LET input == fn.args[1]
            valid == 0..(Len(input) - 1)
        IN  /\ Len(fn.result) = Len(input)
            /\ \A i \in 1..Len(input) :
                  Occurrences(fn.result, input[i]) = Occurrences(input, input[i])
            /\ \A a, b \in valid :
                  /\ (Ranked(a) /\ Ranked(b) /\ FirstRanked(a) < FirstRanked(b))
                        => ResultPosition(a) < ResultPosition(b)
                  /\ (Ranked(a) /\ ~Ranked(b)) => ResultPosition(a) < ResultPosition(b)
                  /\ (~Ranked(a) /\ ~Ranked(b) /\ a < b)
                        => ResultPosition(a) < ResultPosition(b)

\* an answer with a repeated index and an out-of-range one that leaves an
\* offer unnamed
C34_Witness ==
    /\ fn.name = "rerank_offers_with_llm"
    /\ fn.args[2] = <<2, 2, 3>>
    /\ Len(fn.args[1]) = 3
    /\ fn.result = <<fn.args[1][3], fn.args[1][1], fn.args[1][2]>>

----------------------------------------------------------------------------
(* The two queries of a TokenBudgeter, between its charges                 *)

InitBudget ==
    /\ PayInit
    /\ S4Idle
    /\ \E cap \in TokenCaps, policy \in Policies :
          budgeter = [st \in Paths |->
                         IF st = "strict"
                         THEN NewBudgeter([stage \in TokenStages |-> cap], policy)
                         ELSE NoBudgeter]
    /\ token_log = <<>>
    /\ sourcing = NoSourcing
    /\ run = NoRun
    /\ fn = NoFn

\* budgeter.enforce_before_call(state, planned_prompt_tokens)
Enforce(id, state, planned_prompt_tokens) ==
    /\ budgeter[id].exists
    /\ fn' = [name |-> "enforce_before_call",
              args |-> <<id, state, planned_prompt_tokens>>,
              result |-> <<enforce_before_call(budgeter[id], state,
                                               planned_prompt_tokens)>>]
    /\ UNCHANGED <<budgeter, token_log, sourcing, run>>
    /\ UNCHANGED payVars
    /\ UNCHANGED s4Vars

\* budgeter.remaining(state)
Remaining(id, state) ==
    /\ budgeter[id].exists
    /\ fn' = [name |-> "remaining", args |-> <<id, state>>,
              result |-> <<remaining(budgeter[id], state)>>]
    /\ UNCHANGED <<budgeter, token_log, sourcing, run>>
    /\ UNCHANGED payVars
    /\ UNCHANGED s4Vars

NextBudget ==
    \/ \E id \in Strategies, state \in TokenStages, n_tokens \in 1..MaxTokens :
          Charge(id, state, "prompt", n_tokens)
    \/ \E id \in Strategies, state \in TokenStages, planned \in 0..MaxTokens :
          Enforce(id, state, planned)
    \/ \E id \in Strategies, state \in TokenStages : Remaining(id, state)

SpecBudget == InitBudget /\ [][NextBudget]_vars

\* a step that ran one of the two queries
Queried(name) ==
    /\ fn'.name = name
    /\ fn.name # name \/ fn.args # fn'.args \/ fn.result # fn'.result

\* C35: enforce_before_call(stage, planned) returns ok exactly when
\* used[stage] + planned <= cap and otherwise the configured policy;
\* remaining(stage) returns cap - used[stage] floored at 0; neither changes
\* used or appends a TokenEvent.
C35_QueriesArePure ==
    [][/\ Queried("enforce_before_call") =>
             LET b       == budgeter[fn'.args[1]]
                 stage   == fn'.args[2]
                 planned == fn'.args[3]
                 fits    == b.used[stage] + planned <= b.budgets[stage]
             IN  /\ fn'.result[1] = "ok" <=> fits
                 /\ ~fits => fn'.result[1] = b.policy
                 /\ budgeter' = budgeter /\ token_log' = token_log
       /\ Queried("remaining") =>
             LET b     == budgeter[fn'.args[1]]
                 stage == fn'.args[2]
                 left  == b.budgets[stage] - b.used[stage]
             IN  /\ fn'.result[1] = IF left > 0 THEN left ELSE 0
                 /\ budgeter' = budgeter /\ token_log' = token_log]_vars

\* after a charge the call no longer fits and the policy is returned; a
\* negative cap leaves nothing
C35_Witness ==
    /\ fn.name = "enforce_before_call"
    /\ fn.result[1] = "block"
    /\ budgeter["strict"].used[fn.args[2]] = 1
    /\ budgeter["strict"].budgets[fn.args[2]] = 2
    /\ fn.args[3] = 2

C35_WitnessRemaining ==
    /\ fn.name = "remaining"
    /\ fn.result[1] = 0
    /\ budgeter["strict"].budgets[fn.args[2]] = -1

----------------------------------------------------------------------------
(* The time the compensation loop takes                                    *)

\* C36: the elapsed time of the compensation loop, from its start to the
\* end of its last candidate evaluation, never exceeds the extra-latency
\* cap in force.
C36_ElapsedWithinCap ==
    (impl = "graph" /\ pc \in {"s4_loop", "s4_return"})
        => loc.elapsed_ms <= loc.extra_cap_ms

----------------------------------------------------------------------------
(* Calls of pay, good and bad, that pile up on two cards                   *)

LockOffers ==
    {[vendor |-> "Mockazon", title |-> "Sample", price_usd |-> 25],
     [vendor |-> "FraudCo", title |-> "Sample", price_usd |-> 25],
     [vendor |-> "Mockazon", title |-> "Sample", price_usd |-> 0],
     [vendor |-> "Mockazon", title |-> "Sample", price_usd |-> 6000]}

LockPayments ==
    {[card_number |-> CardVisa, expiry_mm_yy |-> ExpiryGood, cvv |-> CvvGood, amount_usd |-> 25],
     [card_number |-> CardVisa, expiry_mm_yy |-> ExpiryGood, cvv |-> CvvBad, amount_usd |-> 25],
     [card_number |-> CardMaster, expiry_mm_yy |-> ExpiryPast, cvv |-> CvvGood, amount_usd |-> 25]}

NextLock ==
    \/ \E c \in Callers, offer \in LockOffers, payment \in LockPayments :
          Call(c, offer, payment, <<>>)
    \/ \E c \in Callers : Pay(c)

SpecLock == Init /\ [][NextLock]_vars

LockCards == {digits_of(p.card_number) : p \in LockPayments}

Flagged(card) == ActivityGet(CARD_ACTIVITY, card) > VelocityLimit

\* C37: once a card's failed-attempt counter exceeds 5 its counter never
\* changes again and every later pay call with that card fails without
\* getting past the velocity gate: it is refused there, or before it by
\* the offer checks; no payment with the card succeeds any more.
C37_FlaggedCardStaysFlagged ==
    [][\A card \in LockCards : Flagged(card) =>
          /\ ActivityGet(CARD_ACTIVITY', card) = ActivityGet(CARD_ACTIVITY, card)
          /\ \A c \in Callers :
                (Runs(c) /\ digits_of(calls[c].payment.card_number) = card)
                    => /\ calls'[c].error =
                             IF validate_offer(calls[c].offer) # ""
                             THEN validate_offer(calls[c].offer)
                             ELSE "Card flagged for excessive failed attempts"
                       /\ calls'[c].receipt = NoReceipt
                       /\ RECEIPT_STORE' = RECEIPT_STORE]_vars

\* both callers were refused at the gate with a good card, a good offer and
\* a good CVV, one after the other
C37_Witness ==
    /\ Flagged(CardVisa)
    /\ \A c \in Callers :
          /\ calls[c].status = "done"
          /\ calls[c].error = "Card flagged for excessive failed attempts"
          /\ calls[c].payment.cvv = CvvGood
          /\ calls[c].offer.vendor = "Mockazon"
    /\ calls["c1"].ranWith = {} /\ calls["c2"].ranWith = {}

\* the offer passes _validate_offer
Admissible(offer) ==
    /\ 0 < offer.price_usd /\ offer.price_usd <= MAX_AMOUNT
    /\ offer.vendor \notin BLACKLISTED_VENDORS

\* C38: a pay call that raises leaves the receipt store unchanged, and a
\* Receipt enters the store only through a call whose offer has
\* 0 < price_usd <= the checkout maximum and a vendor outside the
\* blacklist, so that every stored Receipt is of such an offer.
C38_StoreHoldsAdmittedOnly ==
    [][/\ \A c \in Callers :
             (Runs(c) /\ calls'[c].error # "") => RECEIPT_STORE' = RECEIPT_STORE
       /\ \A k \in (DOMAIN RECEIPT_STORE') \ (DOMAIN RECEIPT_STORE) :
             \E c \in Callers :
                 /\ Runs(c) /\ calls'[c].error = ""
                 /\ Admissible(calls[c].offer)
                 /\ RECEIPT_STORE'[k].vendor = calls[c].offer.vendor
                 /\ RECEIPT_STORE'[k].amount_usd = calls[c].offer.price_usd
       /\ \A k \in DOMAIN RECEIPT_STORE' :
             /\ 0 < RECEIPT_STORE'[k].amount_usd
             /\ RECEIPT_STORE'[k].amount_usd <= MAX_AMOUNT
             /\ RECEIPT_STORE'[k].vendor \notin BLACKLISTED_VENDORS]_vars

\* with a Receipt in the store, one caller was refused for a blacklisted
\* vendor and the other for the amount limit
C38_Witness ==
    /\ DOMAIN RECEIPT_STORE # {}
    /\ calls["c1"].status = "done" /\ calls["c1"].error = "Vendor not allowed"
    /\ calls["c2"].status = "done" /\ calls["c2"].error = "Amount exceeds checkout limit"

----------------------------------------------------------------------------
(* What the S4_TRUST event says of the best offer                          *)

\* C39: the risk recorded in the S4_TRUST event for the best offer equals
\* the risk of the assessment S4 then uses to decide whether to compensate
\* and returns when no switch happens.
C39_EventRiskIsDecisionRisk ==
    S4Assessed =>
        \A i \in 1..Len(events) :
            (events[i].stage = "S4_TRUST" /\ events[i].ok)
                => events[i].risk = OriginalTrust.risk


----------------------------------------------------------------------------
(* apps/agent4_trust/main.py: assess with the anomaly enrichments and the   *)
(* optional LLM adjustment of libs/agents/trust_chain.py.  A z-score is a   *)
(* list, empty for None, holding the score in tenths.                      *)

Abs(n) == IF n < 0 THEN 0 - n ELSE n

\* _langchain_enabled(): USE_LANGCHAIN_TRUST, stripped and lowered
langchain_enabled(flag) ==
    Lower(Strip(flag)) \in {<<"1">>, <<"t", "r", "u", "e">>, <<"y", "e", "s">>}

\* llm_adjust_trust: the band the chain decided replaces the band so far
llm_adjust_trust(assessment, decision) ==
    LET risk_normalized == Lower(Strip(decision.risk))
    IN  IF \A band \in DOMAIN RiskText : RiskText[band] # risk_normalized
        THEN assessment
        ELSE [assessment EXCEPT
                 !.risk = CHOOSE band \in DOMAIN RiskText : RiskText[band] = risk_normalized]

\* the three enrichments of assess, in the order of the code
anomaly_risk(risk, z, weight_z, dim_z) ==
    LET after_price  == IF z # <<>> /\ z[1] <= -20 THEN raise_risk(risk, "high") ELSE risk
        after_weight == IF weight_z # <<>> /\ Abs(weight_z[1]) >= 30
                        THEN raise_risk(after_price, "high") ELSE after_price
    IN  IF dim_z # <<>> /\ \E i \in 1..Len(dim_z) : Abs(dim_z[i]) >= 30
        THEN raise_risk(after_weight, "medium") ELSE after_weight

\* assess(offer) where the reference files give z, weight_z and dim_z, the
\* environment holds flag, and the chain raises or returns decision
assess_enriched(offer, z, weight_z, dim_z, flag, decision) ==
    LET assessment == [assess(offer) EXCEPT
                          !.risk = anomaly_risk(@, z, weight_z, dim_z)]
    IN  IF langchain_enabled(flag) /\ ~decision.raises
        THEN llm_adjust_trust(assessment, decision)
        ELSE assessment

PriceZ == {<<>>, <<-25>>, <<-20>>, <<-10>>}

WeightZ == {<<>>, <<30>>, <<-35>>, <<10>>}

DimensionZ == {<<>>, <<10, 5>>, <<10, -30>>}

LangchainFlags == {<<"0">>, <<" ", "T", "r", "u", "e">>, <<"y", "e", "s">>}

\* what chain.ainvoke gives: an exception, or a decision whose risk is text
Decisions ==
    {[raises |-> TRUE, risk |-> <<>>]}
    \cup {[raises |-> FALSE, risk |-> t] :
            t \in {<<" ", "L", "o", "w", " ">>, RiskText.medium,
                   <<"H", "I", "G", "H">>, <<"n", "o", "n", "e">>}}

EnrichOffers ==
    {[OfferAt(UrlMock) EXCEPT !.vendor = v, !.url = u] :
        v \in {Mockazon, MegaBuy, GigaDeal}, u \in {UrlMock, UrlClick}}

InitEnrich ==
    /\ PayInit
    /\ S4Idle
    /\ budgeter = [st \in Paths |-> NoBudgeter]
    /\ token_log = <<>>
    /\ sourcing = NoSourcing
    /\ run = NoRun
    /\ \E offer \in EnrichOffers, z \in PriceZ, weight_z \in WeightZ,
          dim_z \in DimensionZ, flag \in LangchainFlags, decision \in Decisions :
          fn = [name |-> "", args |-> <<offer, z, weight_z, dim_z, flag, decision>>,
                result |-> <<>>]

\* await assess(offer)
AssessEnriched ==
    /\ fn.name = ""
    /\ fn' = [fn EXCEPT !.name = "assess",
                        !.result = assess_enriched(fn.args[1], fn.args[2], fn.args[3],
                                                   fn.args[4], fn.args[5], fn.args[6])]
    /\ UNCHANGED <<budgeter, token_log, sourcing, run>>
    /\ UNCHANGED payVars
    /\ UNCHANGED s4Vars

NextEnrich == AssessEnriched

SpecEnrich == InitEnrich /\ [][NextEnrich]_vars

\* the band _compute_risk gives the offer of this evaluation
RuleBand == assess(fn.args[1]).risk

\* C40: the band assess returns is at least the band computed from the vendor
\* rules, with or without anomaly enrichments and LLM adjustment.
C40_AssessNeverLowersRisk ==
    fn.name = "assess" => RiskRank[fn.result.risk] >= RiskRank[RuleBand]

\* the same with USE_LANGCHAIN_TRUST off or the chain raising: only the
\* enrichments act
C40_EnrichmentsNeverLowerRisk ==
    (fn.name = "assess" /\ (~langchain_enabled(fn.args[5]) \/ fn.args[6].raises))
        => RiskRank[fn.result.risk] >= RiskRank[RuleBand]

C40_EnrichedWitness ==
    /\ fn.name = "assess"
    /\ ~langchain_enabled(fn.args[5])
    /\ RuleBand = "low"
    /\ fn.result.risk = "high"

====
